---- MODULE Spec2Model ----
(***************************************************************************)
(* Verification model of the occlusion-test library (occ-raycasting):      *)
(* software rasterizer, rasterizer culler, naive raycaster, visibility     *)
(* aggregation, binary frame format and the ray intersection kernel.       *)
(*                                                                         *)
(* Numbers.  f32 values are modelled by exact rationals <<n, d>> (d > 0,   *)
(* lowest terms); rounding error of f32 arithmetic is not modelled.  The   *)
(* non-finite f32 values that the code can produce by dividing by zero     *)
(* are modelled explicitly where they arise (aabb_ray, plane_ray).         *)
(* The depth type D is the 16-bit instance of DepthBufferPrecisionType;    *)
(* the 32-bit instance has the same code with MAX = 2^32 - 1.              *)
(***************************************************************************)
EXTENDS Integers, Sequences, FiniteSets, TLC

(***************************************************************************)
(* Bounds of the model.                                                    *)
(***************************************************************************)
\* edge length of the frame of the rasterizer under test
FrameSize == 3
\* number of rasterize/clear calls explored on one rasterizer
MaxOps == 2
\* number of object ids handed to rasterize
NumIds == 2

\* largest number of cells of an id buffer handed to the aggregator
MaxPixels == 4
\* largest number of scene objects handed to the aggregator
MaxObjects == 3

\* largest width and height, and largest number of cells, of a Frame
MaxFrameDim == 2
MaxFrameCells == 4

\* longest index sequence handed to a TriangleIterator, and number of
\* distinct index values in it
MaxIndices == 5
NumIndexValues == 3

\* largest number of setups and of views in a TestConfig
MaxSetups == 2
MaxViews == 2

\* threads sharing the stats tree, child names in use, largest elapsed time
\* of a TimeRecording and number of stats operations explored
NumThreads == 2
NumNames == 2
MaxElapsed == 2
MaxStatsOps == 4

\* number of draw_pixel calls explored on one rasterizer
MaxDraws == 3

\* largest denominator of the depths handed to from_f32
MaxDenominator == 10

\* largest coordinate of the grid the boxes, triangles and rays are drawn from
MaxCoord == 2

\* number of compute_visibility calls explored on one engine instance
MaxCalls == 2

\* subdivisions of a pixel in the x coordinates of the flat triangles
FlatSteps == 5

\* largest number of words after the header of a byte stream handed to
\* read_binary
MaxStreamWords == 6

\* largest number of objects of a scene handed to
\* build_acceleration_structures
MaxBuilt == 120

\* number of stats operations explored under fair scheduling
MaxLiveOps == 3

VARIABLES
    rasterizer,     \* Rasterizer<D>: width, height, depth_buffer, id_buffer
    panicked,       \* TRUE once an operation has panicked
    lastOp,         \* name of the last operation applied
    numOps,         \* number of operations applied so far
    id_buffer,      \* the id buffer read by the aggregator
    num_objects,    \* the number of scene objects
    visibility,     \* the caller's Visibility vector (in/out parameter)
    prior,          \* the content of visibility before the last call
    frame,          \* a Frame: width, height, id_buffer, depth_buffer
    bytes,          \* the byte stream produced by write_binary
    frameRead,      \* the result of read_binary
    aabb,           \* an AABB: min, max
    tri,            \* a triangle <<p0, p1, p2>>
    ray,            \* a Ray: pos, dir
    f1,             \* result of the first intersection routine applied
    f2,             \* result of the second intersection routine applied
    engine,         \* which OcclusionTester the instance is
    scene,          \* the Scene the engine was constructed with
    view,           \* view and projection matrix of the last call
    stats,          \* the TestStats returned by the last call
    options,        \* the OccOptions the engine was constructed with
    iterator,       \* a TriangleIterator: primitive, indices, flip_triangle, v
    indices,        \* the index sequence the iterator was created on
    triangles,      \* the triangles the iterator has yielded so far
    item,           \* what the last call of next returned
    config,         \* the TestConfig of the executor: setups, views, frame_size
    fs,             \* which directories the file system lets the executor create
    pc,             \* position of TestExecutor::run: at, setup, view
    events,         \* the calls run has made on the engines, in order
    nodes,          \* the Stats nodes allocated so far; a StatsNode is an index
    locks,          \* per node, the thread holding its Mutex (0 when free)
    threads,        \* per thread, the operation it is executing and its locals
    recordings,     \* the TimeRecordings created so far: dst_node, state, ns, by
    lookups,        \* the get_child calls that have returned: node, name, handle
    fragment,       \* the arguments of the last draw_pixel call: id, x, y, depth
    before,         \* the rasterizer before the last call on it
    f32_depth,      \* an f32 depth handed to from_f32
    quantized,      \* what from_f32 returned for it, per depth type
    build,          \* build_acceleration_structures: n, i, last_update, calls
    trace,          \* per pixel, what the last call did on it (draw_pixel calls,
                    \* or the objects whose bounding volume test passed)
    swapped         \* the rasterizer after the same triangles in reverse order

rasterVars == <<rasterizer>>
aggVars == <<id_buffer, num_objects, visibility, prior>>
frameVars == <<frame, bytes, frameRead>>
isectVars == <<aabb, tri, ray, f1, f2>>
engineVars == <<engine, scene, view, stats, options>>
iterVars == <<iterator, indices, triangles, item>>
execVars == <<config, fs, pc, events>>
statsVars == <<nodes, locks, threads, recordings, lookups>>
pixelVars == <<fragment, before>>
quantVars == <<f32_depth, quantized>>
lateVars == <<build, trace, swapped>>
\* the variables added after the engine specification
auxVars == <<iterVars, execVars, statsVars, pixelVars, quantVars, lateVars>>
vars == <<rasterizer, panicked, lastOp, numOps, id_buffer, num_objects,
          visibility, prior, frame, bytes, frameRead, aabb, tri, ray, f1, f2,
          engine, scene, view, stats, options, iterator, indices, triangles,
          item, config, fs, pc, events, nodes, locks, threads,
          recordings, lookups, fragment, before,
          f32_depth, quantized, build, trace, swapped>>

\* value of the variables a specification does not use
Unused == <<>>

IsectUnused ==
    /\ aabb = Unused
    /\ tri = Unused
    /\ ray = Unused
    /\ f1 = Unused
    /\ f2 = Unused

EngineUnused ==
    /\ engine = Unused
    /\ scene = Unused
    /\ view = Unused
    /\ stats = Unused
    /\ options = Unused

IterUnused ==
    /\ iterator = Unused
    /\ indices = Unused
    /\ triangles = Unused
    /\ item = Unused

ExecUnused ==
    /\ config = Unused
    /\ fs = Unused
    /\ pc = Unused
    /\ events = Unused

StatsUnused ==
    /\ nodes = Unused
    /\ locks = Unused
    /\ threads = Unused
    /\ recordings = Unused
    /\ lookups = Unused

PixelUnused == fragment = Unused /\ before = Unused

QuantUnused == f32_depth = Unused /\ quantized = Unused

LateUnused == build = Unused /\ trace = Unused /\ swapped = Unused

AuxUnused ==
    IterUnused /\ ExecUnused /\ StatsUnused /\ PixelUnused /\ QuantUnused /\ LateUnused

(***************************************************************************)
(* Exact rational arithmetic standing for f32.                             *)
(***************************************************************************)
Abs(n) == IF n < 0 THEN -n ELSE n

RECURSIVE GCD(_, _)
GCD(a, b) == IF b = 0 THEN a ELSE GCD(b, a % b)

\* the rational n/d in lowest terms with positive denominator (d # 0)
Q(n, d) ==
    LET s == IF d < 0 THEN -1 ELSE 1
        g == GCD(Abs(n), Abs(d))
    IN  <<(s * n) \div g, (s * d) \div g>>

QI(n) == <<n, 1>>
QAdd(a, b) == Q(a[1] * b[2] + b[1] * a[2], a[2] * b[2])
QSub(a, b) == Q(a[1] * b[2] - b[1] * a[2], a[2] * b[2])
QMul(a, b) == Q(a[1] * b[1], a[2] * b[2])
QDiv(a, b) == Q(a[1] * b[2], a[2] * b[1])
QNeg(a) == <<-a[1], a[2]>>
QLt(a, b) == a[1] * b[2] < b[1] * a[2]
QLe(a, b) == a[1] * b[2] <= b[1] * a[2]
QMax(a, b) == IF QLt(a, b) THEN b ELSE a
QMin(a, b) == IF QLt(b, a) THEN b ELSE a
QSign(a) == IF a[1] < 0 THEN -1 ELSE IF a[1] = 0 THEN 0 ELSE 1

\* f32::round : nearest integer, halves away from zero
QRound(a) ==
    IF a[1] >= 0 THEN (2 * a[1] + a[2]) \div (2 * a[2])
    ELSE -((2 * (-a[1]) + a[2]) \div (2 * a[2]))

\* `as usize` / `as u16` on a non-negative value: truncation
QTrunc(a) == a[1] \div a[2]

\* the f32 values that are not numbers of the model: NaN and the infinities
NaN == <<0, 0>>
IsNaN(a) == a = NaN
PInf == <<1, 0>>
NInf == <<-1, 0>>
is_infinite(a) == a = PInf \/ a = NInf

\* Vec3 components
VX(p) == p[1]
VY(p) == p[2]
VZ(p) == p[3]

(***************************************************************************)
(* DepthBufferPrecisionType (16-bit instance).                             *)
(***************************************************************************)
DMax == 65535

\* mutant: the product is rounded to the nearest integer
from_f32_rounding(depth) == QRound(QMul(depth, QI(DMax)))

\* (depth * F_MAX) as u16
from_f32(depth) == QTrunc(QMul(depth, QI(DMax)))

\* Option<u32>: None is the empty tuple, Some(id) the one-element tuple
None == <<>>
Some(x) == <<x>>

(***************************************************************************)
(* math::clamp                                                             *)
(***************************************************************************)
clamp(x, min_value, max_value) ==
    IF QLt(x, min_value) THEN min_value
    ELSE IF QLt(max_value, x) THEN max_value
    ELSE x

(***************************************************************************)
(* Rasterizer.  The operators work on a record with the struct's fields    *)
(* plus `panic`, set when an indexing operation is out of bounds; after a  *)
(* panic the remaining writes of the call do not happen (unwinding).       *)
(***************************************************************************)
RasterizerNew(w, h) ==
    [width |-> w, height |-> h,
     depth_buffer |-> [i \in 1..(w * h) |-> DMax],
     id_buffer |-> [i \in 1..(w * h) |-> None]]

\* Vec::clear() removes every element of depth_buffer; fill(None) keeps the
\* length of id_buffer
RasterizerClear(r) ==
    [r EXCEPT !.depth_buffer = <<>>,
              !.id_buffer = [i \in 1..Len(r.id_buffer) |-> None]]

\* the struct's fields while a call is running / after it
\* (`outside` records that a buffer cell was addressed for a pixel that is
\* not in the frame, `landed` the fragments that reached the depth test: index,
\* id and quantized depth)
Enter(r) ==
    [width |-> r.width, height |-> r.height, depth_buffer |-> r.depth_buffer,
     id_buffer |-> r.id_buffer, panic |-> FALSE, outside |-> FALSE,
     landed |-> <<>>]

Leave(r) ==
    [width |-> r.width, height |-> r.height, depth_buffer |-> r.depth_buffer,
     id_buffer |-> r.id_buffer]

\* !(0f32..=1f32).contains(&depth) || depth.is_infinite() || depth.is_nan()
DepthOutOfBounds(depth) ==
    \/ IsNaN(depth)
    \/ is_infinite(depth)
    \/ ~(QLe(QI(0), depth) /\ QLe(depth, QI(1)))

\* the cell of pixel (x, y) is addressed for a fragment
Touch(r, id, x, y, depth) ==
    [r EXCEPT !.outside = @ \/ ~(x < r.width /\ y < r.height),
              !.landed = Append(@, <<y * r.width + x, id, from_f32(depth)>>)]

\* mutant: the fragment is written without the depth test
draw_pixel_untested(r, id, x, y, depth) ==
    LET index == y * r.width + x
    IN  IF r.panic THEN r
        ELSE IF DepthOutOfBounds(depth) THEN r
        ELSE IF index + 1 > Len(r.depth_buffer) THEN [Touch(r, id, x, y, depth) EXCEPT !.panic = TRUE]
        ELSE IF TRUE
             THEN [Touch(r, id, x, y, depth) EXCEPT !.depth_buffer[index + 1] = from_f32(depth),
                            !.id_buffer[index + 1] = Some(id)]
             ELSE Touch(r, id, x, y, depth)

\* mutant: a passing fragment writes its depth but not its id
draw_pixel_depth_only(r, id, x, y, depth) ==
    LET index == y * r.width + x
    IN  IF r.panic THEN r
        ELSE IF DepthOutOfBounds(depth) THEN r
        ELSE IF index + 1 > Len(r.depth_buffer) THEN [Touch(r, id, x, y, depth) EXCEPT !.panic = TRUE]
        ELSE IF from_f32(depth) < r.depth_buffer[index + 1]
             THEN [Touch(r, id, x, y, depth) EXCEPT !.depth_buffer[index + 1] = from_f32(depth)]
             ELSE Touch(r, id, x, y, depth)

\* mutant: a fragment as near as the stored one passes the depth test
draw_pixel_last_wins(r, id, x, y, depth) ==
    LET index == y * r.width + x
    IN  IF r.panic THEN r
        ELSE IF DepthOutOfBounds(depth) THEN r
        ELSE IF index + 1 > Len(r.depth_buffer) THEN [Touch(r, id, x, y, depth) EXCEPT !.panic = TRUE]
        ELSE IF from_f32(depth) <= r.depth_buffer[index + 1]
             THEN [Touch(r, id, x, y, depth) EXCEPT !.depth_buffer[index + 1] = from_f32(depth),
                            !.id_buffer[index + 1] = Some(id)]
             ELSE Touch(r, id, x, y, depth)

draw_pixel(r, id, x, y, depth) ==
    LET index == y * r.width + x
    IN  IF r.panic THEN r
        ELSE IF DepthOutOfBounds(depth) THEN r
        ELSE IF index + 1 > Len(r.depth_buffer)
             THEN [Touch(r, id, x, y, depth) EXCEPT !.panic = TRUE]
        ELSE IF from_f32(depth) < r.depth_buffer[index + 1]
             THEN [Touch(r, id, x, y, depth) EXCEPT
                            !.depth_buffer[index + 1] = from_f32(depth),
                            !.id_buffer[index + 1] = Some(id)]
             ELSE Touch(r, id, x, y, depth)

\* `as usize` of a rounded f32: a negative value becomes 0
AsUsize(v) == IF v < 0 THEN 0 ELSE v

RECURSIVE ScanPixels(_, _, _, _, _, _, _, _)
ScanPixels(r, id, y, x, x1m, x0, depth0, dd) ==
    IF x > x1m THEN r
    ELSE ScanPixels(
            draw_pixel(r, id, x, y,
                       QAdd(depth0, QMul(QSub(QI(x), QI(x0)), dd))),
            id, y, x + 1, x1m, x0, depth0, dd)

\* mutant: the pixel of the right end of the line is not drawn
draw_scanline_half_open(r, id, y, fx0, fx1, depth0, depth1) ==
    LET x0 == QRound(fx0)
        x1 == QRound(fx1)
        max_x == r.width - 1
        x0m == AsUsize(IF x0 < 0 THEN 0 ELSE x0)
        x1m == AsUsize(IF x1 > max_x THEN max_x ELSE x1)
        dd == IF x1 > x0 THEN QDiv(QSub(depth1, depth0), QI(x1 - x0))
              ELSE QI(0)
    IN  IF x1 < 0 \/ x0 > max_x THEN r
        ELSE ScanPixels(r, id, y, x0m, x1m - 1, x0, depth0, dd)

draw_scanline(r, id, y, fx0, fx1, depth0, depth1) ==
    LET x0 == QRound(fx0)
        x1 == QRound(fx1)
        max_x == r.width - 1
        x0m == AsUsize(IF x0 < 0 THEN 0 ELSE x0)
        x1m == AsUsize(IF x1 > max_x THEN max_x ELSE x1)
        dd == IF x1 > x0 THEN QDiv(QSub(depth1, depth0), QI(x1 - x0))
              ELSE QI(0)
    IN  IF x1 < 0 \/ x0 > max_x THEN r
        ELSE ScanPixels(r, id, y, x0m, x1m, x0, depth0, dd)

RECURSIVE BottomRows(_, _, _, _, _, _, _, _, _, _, _)
BottomRows(r, id, y, y1m, y0, y1, p0, left_x, right_x, left_depth, right_depth) ==
    IF y > y1m THEN r
    ELSE LET yf == clamp(QDiv(QSub(QI(y), y0), QSub(y1, y0)), QI(0), QI(1))
             x0 == QAdd(VX(p0), QMul(yf, QSub(left_x, VX(p0))))
             x1 == QAdd(VX(p0), QMul(yf, QSub(right_x, VX(p0))))
             depth0 == QAdd(VZ(p0), QMul(yf, QSub(left_depth, VZ(p0))))
             depth1 == QAdd(VZ(p0), QMul(yf, QSub(right_depth, VZ(p0))))
         IN  BottomRows(draw_scanline(r, id, y, x0, x1, depth0, depth1),
                        id, y + 1, y1m, y0, y1, p0,
                        left_x, right_x, left_depth, right_depth)

fill_bottom_flat_triangle(r, id, p0, p1, p2) ==
    LET max_y == r.height - 1
        y1 == VY(p2)
        y0 == VY(p0)
        y0r == QRound(y0)
        y1r == QRound(y1)
        y0m == AsUsize(IF y0r < 0 THEN 0 ELSE y0r)
        y1m == AsUsize(IF y1r > max_y THEN max_y ELSE y1r)
        lt == QLt(VX(p1), VX(p2))
        left_x == IF lt THEN VX(p1) ELSE VX(p2)
        right_x == IF lt THEN VX(p2) ELSE VX(p1)
        left_depth == IF lt THEN VZ(p1) ELSE VZ(p2)
        right_depth == IF lt THEN VZ(p2) ELSE VZ(p1)
    IN  IF VY(p0) = VY(p1) THEN r
        ELSE IF QLt(y1, QI(0)) \/ QLt(QI(max_y), y0) THEN r
        ELSE BottomRows(r, id, y0m, y1m, y0, y1, p0,
                        left_x, right_x, left_depth, right_depth)

RECURSIVE TopRows(_, _, _, _, _, _, _, _, _, _, _)
TopRows(r, id, y, y1m, y0, y1, p2, left_x, right_x, left_depth, right_depth) ==
    IF y > y1m THEN r
    ELSE LET yf == clamp(QDiv(QSub(y1, QI(y)), QSub(y1, y0)), QI(0), QI(1))
             x0 == QAdd(VX(p2), QMul(yf, QSub(left_x, VX(p2))))
             x1 == QAdd(VX(p2), QMul(yf, QSub(right_x, VX(p2))))
             depth0 == QAdd(VZ(p2), QMul(yf, QSub(left_depth, VZ(p2))))
             depth1 == QAdd(VZ(p2), QMul(yf, QSub(right_depth, VZ(p2))))
         IN  TopRows(draw_scanline(r, id, y, x0, x1, depth0, depth1),
                     id, y + 1, y1m, y0, y1, p2,
                     left_x, right_x, left_depth, right_depth)

fill_top_flat_triangle(r, id, p0, p1, p2) ==
    LET max_y == r.height - 1
        y1 == VY(p2)
        y0 == VY(p0)
        y0r == QRound(y0)
        y1r == QRound(y1)
        y0m == AsUsize(IF y0r < 0 THEN 0 ELSE y0r)
        y1m == AsUsize(IF y1r > max_y THEN max_y ELSE y1r)
        lt == QLt(VX(p0), VX(p1))
        left_x == IF lt THEN VX(p0) ELSE VX(p1)
        right_x == IF lt THEN VX(p1) ELSE VX(p0)
        left_depth == IF lt THEN VZ(p0) ELSE VZ(p1)
        right_depth == IF lt THEN VZ(p1) ELSE VZ(p0)
    IN  IF VY(p2) = VY(p0) THEN r
        ELSE IF QLt(y1, QI(0)) \/ QLt(QI(max_y), y0) THEN r
        ELSE TopRows(r, id, y0m, y1m, y0, y1, p2,
                     left_x, right_x, left_depth, right_depth)

fill_triangle(r, id, p0, p1, p2) ==
    LET y0 == VY(p0)
        y1 == VY(p1)
        y2 == VY(p2)
    IN  IF QRound(y0) = QRound(y2) THEN
            LET y == QRound(y0)
                le == QLe(VX(p0), VX(p2))
            IN  IF y >= 0 /\ y < r.height
                THEN draw_scanline(r, id, y,
                                   IF le THEN VX(p0) ELSE VX(p2),
                                   IF le THEN VX(p2) ELSE VX(p0),
                                   IF le THEN VZ(p0) ELSE VZ(p2),
                                   IF le THEN VZ(p2) ELSE VZ(p0))
                ELSE r
        ELSE IF QRound(y0) = QRound(y1) THEN
            fill_top_flat_triangle(r, id, p0, p1, p2)
        ELSE IF QRound(y1) = QRound(y2) THEN
            fill_bottom_flat_triangle(r, id, p0, p1, p2)
        ELSE
            LET lambda == QDiv(QSub(y1, y0), QSub(y2, y0))
                x3 == QAdd(VX(p0), QMul(lambda, QSub(VX(p2), VX(p0))))
                z3 == QAdd(VZ(p0), QMul(lambda, QSub(VZ(p2), VZ(p0))))
                p3 == <<x3, y1, z3>>
            IN  fill_top_flat_triangle(
                    fill_bottom_flat_triangle(r, id, p0, p1, p3),
                    id, p1, p3, p2)

rasterize(r, id, p0, p1, p2) ==
    IF QLe(VY(p0), VY(p1)) /\ QLe(VY(p0), VY(p2)) THEN
        IF QLe(VY(p1), VY(p2)) THEN fill_triangle(r, id, p0, p1, p2)
        ELSE fill_triangle(r, id, p0, p2, p1)
    ELSE IF QLe(VY(p1), VY(p0)) /\ QLe(VY(p1), VY(p2)) THEN
        IF QLe(VY(p0), VY(p2)) THEN fill_triangle(r, id, p1, p0, p2)
        ELSE fill_triangle(r, id, p1, p2, p0)
    ELSE
        IF QLe(VY(p0), VY(p1)) THEN fill_triangle(r, id, p2, p0, p1)
        ELSE fill_triangle(r, id, p2, p1, p0)

(***************************************************************************)
(* Visibility aggregation (utils::compute_visibility_from_id_buffer; the   *)
(* rasterizer culler's compute_visibility_internal has the same body).     *)
(* A Visibility entry is <<object_id, coverage>>.  The f32 value NaN, the  *)
(* result of 0.0 / 0.0, is the pair <<0, 0>>.                              *)
(***************************************************************************)
\* histogram[i] for object i (0-based): the number of cells holding Some(i)
Histogram(buf, i) == Cardinality({k \in 1..Len(buf) : buf[k] = Some(i)})

\* indexing the histogram with an id >= num_objects is out of bounds
HistogramPanics(buf, n) ==
    \E k \in 1..Len(buf) : buf[k] # None /\ buf[k][1] >= n

\* mutant: the vector is padded but a longer one is not truncated
ResizeGrowOnly(vis, n) ==
    [k \in 1..(IF Len(vis) > n THEN Len(vis) ELSE n) |->
        IF k <= Len(vis) THEN vis[k] ELSE <<0, QI(0)>>]

\* Vec::resize(n, (0, 0.0)): truncate, or pad with (0, 0.0)
Resize(vis, n) ==
    [k \in 1..n |-> IF k <= Len(vis) THEN vis[k] ELSE <<0, QI(0)>>]

\* mutant: the division is done on the integers
CoverageIntegerDivision(count, len) ==
    IF len = 0 THEN NaN ELSE QI(count \div len)

\* count as f32 / len as f32
Coverage(count, len) == IF len = 0 THEN NaN ELSE Q(count, len)

\* the loop over histogram.iter().enumerate().zip(visibility.iter_mut())
FillVisibility(vis, buf) ==
    [k \in 1..Len(vis) |-> <<k - 1, Coverage(Histogram(buf, k - 1), Len(buf))>>]

\* mutant: the comparator's arguments are swapped (ascending order)
ComesBeforeAscending(b, a) == QLt(b[2], a[2])

\* b.1.partial_cmp(&a.1) == Less, i.e. b sorts before a
ComesBefore(b, a) == QLt(a[2], b[2])

\* insert x behind every entry that does not have to come after it
RECURSIVE InsertStable(_, _)
InsertStable(sorted, x) ==
    IF sorted = <<>> THEN <<x>>
    ELSE IF ComesBefore(x, sorted[Len(sorted)])
         THEN Append(InsertStable(SubSeq(sorted, 1, Len(sorted) - 1), x),
                     sorted[Len(sorted)])
         ELSE Append(sorted, x)

\* slice::sort_by with the comparator above: a stable sort
RECURSIVE SortByCoverage(_)
SortByCoverage(vis) ==
    IF vis = <<>> THEN <<>>
    ELSE InsertStable(SortByCoverage(SubSeq(vis, 1, Len(vis) - 1)), vis[Len(vis)])

\* partial_cmp(..).unwrap() panics on NaN as soon as two entries are compared
SortPanics(vis) == Len(vis) >= 2 /\ \E k \in 1..Len(vis) : IsNaN(vis[k][2])

\* result: the caller's vector after the call, and whether the call panicked
compute_visibility_from_id_buffer(vis, buf, n) ==
    IF HistogramPanics(buf, n) THEN [visibility |-> vis, panic |-> TRUE]
    ELSE LET filled == FillVisibility(Resize(vis, n), buf)
         IN  IF SortPanics(filled) THEN [visibility |-> filled, panic |-> TRUE]
             ELSE [visibility |-> SortByCoverage(filled), panic |-> FALSE]

(***************************************************************************)
(* Frame and its binary format.  A u32 (and the bit pattern of an f32) is  *)
(* the pair <<high 16 bits, low 16 bits>>; a usize is a record of its      *)
(* upper 32 bits `hi` and its lower 32 bits `lo`, a u32.                   *)
(***************************************************************************)
Half == 65536
Byte == 256

U32(n) == <<n \div Half, n % Half>>
U32Max == <<Half - 1, Half - 1>>
USize(n) == [hi |-> 0, lo |-> U32(n)]
\* mutant: the writer emits the bytes in big-endian order
to_be_bytes(u) == <<u[1] \div Byte, u[1] % Byte, u[2] \div Byte, u[2] % Byte>>

\* 2^32, the smallest usize that does not fit a u32
USizeTwoTo32 == [hi |-> 1, lo |-> U32(0)]

\* usize as u32: the upper 32 bits are dropped
AsU32(z) == z.lo
\* u32 as usize
AsUSize(u) == [hi |-> 0, lo |-> u]

IsZero(z) == z.hi = 0 /\ z.lo = U32(0)
\* a usize small enough to be a number of the model
IsSmall(z) == z.hi = 0 /\ z.lo[1] = 0
Small(z) == z.lo[2]

\* width * height, for the sizes the model allocates a buffer with; -1 stands
\* for a larger product: such a buffer is allocated before the first cell
\* is read, and no stream of the model is long enough to fill it
NumCells(w, h) ==
    IF IsZero(w) \/ IsZero(h) THEN 0
    ELSE IF IsSmall(w) /\ IsSmall(h) /\ Small(w) * Small(h) < Half
         THEN Small(w) * Small(h)
         ELSE -1

\* vec![None; width * height] panics with "capacity overflow" when the
\* buffer needs more than isize::MAX bytes (8 bytes per Option<u32> cell):
\* certainly when both sizes are 2^30 or more
CapacityOverflow(w, h) ==
    /\ w.hi > 0 \/ w.lo[1] >= Half \div 4
    /\ h.hi > 0 \/ h.lo[1] >= Half \div 4

to_le_bytes(u) == <<u[2] % Byte, u[2] \div Byte, u[1] % Byte, u[1] \div Byte>>
from_le_bytes(b) == <<b[3] + Byte * b[4], b[1] + Byte * b[2]>>

RECURSIVE WriteIds(_)
WriteIds(ids) ==
    IF ids = <<>> THEN <<>>
    ELSE (IF ids[1] = None THEN to_le_bytes(U32Max) ELSE to_le_bytes(ids[1][1]))
         \o WriteIds(Tail(ids))

RECURSIVE WriteDepths(_)
WriteDepths(depths) ==
    IF depths = <<>> THEN <<>>
    ELSE to_le_bytes(depths[1]) \o WriteDepths(Tail(depths))

write_binary(f) ==
    LET width == AsU32(f.width)
        height == AsU32(f.height)
        has_depth == IF f.depth_buffer # None THEN U32(1) ELSE U32(0)
    IN  to_le_bytes(width) \o to_le_bytes(height) \o to_le_bytes(has_depth)
        \o WriteIds(f.id_buffer)
        \o (IF f.depth_buffer # None THEN WriteDepths(f.depth_buffer[1]) ELSE <<>>)

\* the u32 read by the k-th read_exact of four bytes (k = 0, 1, ...)
Word(b, k) == from_le_bytes(SubSeq(b, 4 * k + 1, 4 * k + 4))

\* Error::Io, what the ? operator makes of the std::io::Error of read_exact
IoError == [ok |-> FALSE, panic |-> FALSE, kind |-> "Io"]

\* Ok(frame)
OkFrame(f) == [ok |-> TRUE, panic |-> FALSE, frame |-> f]

\* the result of read_binary: Ok(frame), Err or a panic; read_exact fails
\* when fewer than four bytes are left
read_binary(b) ==
    IF Len(b) < 12 THEN IoError
    ELSE
        LET width == AsUSize(Word(b, 0))
            height == AsUSize(Word(b, 1))
            has_depth == Word(b, 2)
            n == NumCells(width, height)
            ids == [k \in 1..n |->
                      IF Word(b, 2 + k) = U32Max THEN None ELSE Some(Word(b, 2 + k))]
            depths == [k \in 1..n |-> Word(b, 2 + n + k)]
        IN  IF CapacityOverflow(width, height)
            THEN [ok |-> FALSE, panic |-> TRUE]
            ELSE IF n < 0 \/ Len(b) < 12 + 4 * n THEN IoError
            ELSE IF has_depth = U32(1)
                 THEN IF Len(b) < 12 + 8 * n THEN IoError
                      ELSE OkFrame([width |-> width, height |-> height,
                                    id_buffer |-> ids,
                                    depth_buffer |-> Some(depths)])
                 ELSE OkFrame([width |-> width, height |-> height,
                               id_buffer |-> ids, depth_buffer |-> None])

(***************************************************************************)
(* Geometry kernel.  A Vec3 is a triple of rationals.                      *)
(*                                                                         *)
(* Unit vectors.  Ray::from_pos and Plane::from_basis normalize a vector,  *)
(* which in general has an irrational length.  The model keeps the vector  *)
(* v that is normalized and reads it as v / |v|:                           *)
(*   - a ray parameter t of the code is held as t / |x1 - x0| (all         *)
(*     parameters along one ray carry the same positive factor, so their   *)
(*     order, their equality and the point pos + t * dir are unchanged);   *)
(*   - a plane (n, d) is held as (|N| * n, |N| * d): plane_ray's quotient  *)
(*     and the sign of every inside test are unchanged.                    *)
(* The normalization of the zero vector gives NaN components.              *)
(***************************************************************************)
VAdd(a, b) == <<QAdd(a[1], b[1]), QAdd(a[2], b[2]), QAdd(a[3], b[3])>>
VSub(a, b) == <<QSub(a[1], b[1]), QSub(a[2], b[2]), QSub(a[3], b[3])>>
VScale(k, a) == <<QMul(k, a[1]), QMul(k, a[2]), QMul(k, a[3])>>
Dot(a, b) == QAdd(QAdd(QMul(a[1], b[1]), QMul(a[2], b[2])), QMul(a[3], b[3]))
Cross(a, b) ==
    <<QSub(QMul(a[2], b[3]), QMul(a[3], b[2])),
      QSub(QMul(a[3], b[1]), QMul(a[1], b[3])),
      QSub(QMul(a[1], b[2]), QMul(a[2], b[1]))>>
ZeroVec == <<QI(0), QI(0), QI(0)>>

\* non-finite f32 values and f32::MAX; a pair with denominator 0 is not a
\* rational: <<0, 0>> is NaN
F32_MAX == <<2, 0>>
F32_MIN == <<-2, 0>>
IsFinite(a) == a[2] # 0
Rank(a) ==
    IF a = NInf THEN -2 ELSE IF a = F32_MIN THEN -1
    ELSE IF a = F32_MAX THEN 1 ELSE IF a = PInf THEN 2 ELSE 0

\* a < b and a > b on f32: false when an operand is NaN
f32_lt(a, b) ==
    IF IsNaN(a) \/ IsNaN(b) THEN FALSE
    ELSE IF IsFinite(a) /\ IsFinite(b) THEN QLt(a, b)
    ELSE Rank(a) < Rank(b)
f32_gt(a, b) == f32_lt(b, a)

\* f32::max and f32::min: when one operand is NaN the other is returned
f32_max(a, b) ==
    IF IsNaN(a) THEN b ELSE IF IsNaN(b) THEN a ELSE IF f32_lt(a, b) THEN b ELSE a
f32_min(a, b) ==
    IF IsNaN(a) THEN b ELSE IF IsNaN(b) THEN a ELSE IF f32_lt(b, a) THEN b ELSE a

\* a / b on finite f32; a zero divisor here is always +0.0 (a difference of
\* equal coordinates)
f32_div(a, b) ==
    IF b[1] # 0 THEN QDiv(a, b)
    ELSE IF a[1] = 0 THEN NaN ELSE IF a[1] > 0 THEN PInf ELSE NInf

\* Ray::from_pos
from_pos(x0, x1) == [pos |-> x0, dir |-> VSub(x1, x0)]

\* Plane::from_basis; `nan` marks the normalized zero vector
from_basis(pos, b0, b1) ==
    LET n == Cross(b0, b1)
    IN  [n |-> n, d |-> QNeg(Dot(n, pos)), nan |-> n = ZeroVec]

\* Plane::from_triangle
from_triangle(p0, p1, p2) == from_basis(p0, VSub(p1, p0), VSub(p2, p0))

\* plane_ray that drops the planes facing away from the ray
plane_ray_culling(plane, r) ==
    IF plane.nan THEN Some(NaN)
    ELSE LET a == Dot(plane.n, r.dir)
             lambda == QDiv(QNeg(QAdd(plane.d, Dot(plane.n, r.pos))), a)
         IN  IF a[1] >= 0 THEN None
             ELSE IF QLt(lambda, QI(0)) THEN None
             ELSE Some(lambda)

\* with a NaN normal: a == 0 is false, lambda is NaN and lambda < 0 is false
plane_ray(plane, r) ==
    IF plane.nan THEN Some(NaN)
    ELSE LET a == Dot(plane.n, r.dir)
             lambda == QDiv(QNeg(QAdd(plane.d, Dot(plane.n, r.pos))), a)
         IN  IF a[1] = 0 THEN None
             ELSE IF QLt(lambda, QI(0)) THEN None
             ELSE Some(lambda)

\* the three inside tests are false when lambda is NaN
triangle_ray(p0, p1, p2, r, max_f) ==
    LET plane == from_triangle(p0, p1, p2)
        hit == plane_ray(plane, r)
        lambda == hit[1]
        pos0 == VAdd(r.pos, VScale(lambda, r.dir))
        edge0 == VSub(p1, p0)
        edge1 == VSub(p2, p1)
        edge2 == VSub(p0, p2)
        c0 == VSub(pos0, p0)
        c1 == VSub(pos0, p1)
        c2 == VSub(pos0, p2)
    IN  IF hit = None THEN None
        ELSE IF max_f # None /\ f32_gt(lambda, max_f[1]) THEN None
        ELSE IF IsNaN(lambda) THEN None
        ELSE IF /\ QLt(QI(0), Dot(plane.n, Cross(edge0, c0)))
                /\ QLt(QI(0), Dot(plane.n, Cross(edge1, c1)))
                /\ QLt(QI(0), Dot(plane.n, Cross(edge2, c2)))
             THEN Some(lambda)
             ELSE None

\* AABB::contains_point
contains_point(b, p) ==
    \A k \in 1..3 : QLe(b.min[k], p[k]) /\ QLe(p[k], b.max[k])

\* the loop of aabb_ray from the given axis (1..3) on; st holds t_min, t_max
RECURSIVE SlabAxes(_, _, _, _)
SlabAxes(b, r, axis, st) ==
    IF axis > 3 THEN Some(st.t_min)
    ELSE IF /\ r.dir[axis][1] = 0
            /\ (QLt(r.pos[axis], b.min[axis]) \/ QLt(b.max[axis], r.pos[axis]))
         THEN None
    ELSE LET t0 == f32_div(QSub(b.min[axis], r.pos[axis]), r.dir[axis])
             t1 == f32_div(QSub(b.max[axis], r.pos[axis]), r.dir[axis])
             t_min == f32_max(st.t_min, f32_min(t0, t1))
             t_max == f32_min(st.t_max, f32_max(t0, t1))
         IN  IF f32_gt(t_min, t_max) THEN None
             ELSE SlabAxes(b, r, axis + 1, [t_min |-> t_min, t_max |-> t_max])

\* mutant: a ray parallel to a coordinate plane misses every box
aabb_ray_no_parallel(b, r, max_f) ==
    IF \E axis \in 1..3 : r.dir[axis][1] = 0 THEN None
    ELSE SlabAxes(b, r, 1,
                  [t_min |-> QI(0),
                   t_max |-> IF max_f = None THEN F32_MAX ELSE max_f[1]])

aabb_ray(b, r, max_f) ==
    SlabAxes(b, r, 1,
             [t_min |-> QI(0),
              t_max |-> IF max_f = None THEN F32_MAX ELSE max_f[1]])

\* the corner of face `axis` (0..2) at `value` with the given coordinates on
\* the two other axes
FacePoint(axis, value, a0, a1) ==
    LET axis0 == (axis + 1) % 3
    IN  [k \in 1..3 |-> IF k = axis + 1 THEN value
                        ELSE IF k = axis0 + 1 THEN a0 ELSE a1]

\* `if let Some(d) = ... { if depth > d { depth = d; } }`
MinDepth(depth, hit) ==
    IF hit # None /\ f32_gt(depth, hit[1]) THEN hit[1] ELSE depth

\* depth after one triangle of the tessellation has been tested
TestTriangle(depth, p0, p1, p2, r) ==
    MinDepth(depth, triangle_ray(p0, p1, p2, r, Some(depth)))

\* depth after the two triangles of the face of `axis` (0..2) at `value`
TestFace(b, r, axis, value, axis0, axis1, depth) ==
    TestTriangle(
        TestTriangle(depth,
                     FacePoint(axis, value, b.min[axis0 + 1], b.min[axis1 + 1]),
                     FacePoint(axis, value, b.max[axis0 + 1], b.min[axis1 + 1]),
                     FacePoint(axis, value, b.max[axis0 + 1], b.max[axis1 + 1]),
                     r),
        FacePoint(axis, value, b.min[axis0 + 1], b.min[axis1 + 1]),
        FacePoint(axis, value, b.max[axis0 + 1], b.max[axis1 + 1]),
        FacePoint(axis, value, b.min[axis0 + 1], b.max[axis1 + 1]),
        r)

\* the loops over axis and dir, face = 2 * axis + dir
RECURSIVE TestFaces(_, _, _, _)
TestFaces(b, r, face, depth) ==
    IF face > 5 THEN depth
    ELSE TestFaces(b, r, face + 1,
                   TestFace(b, r, face \div 2,
                            IF face % 2 = 0 THEN b.min[(face \div 2) + 1]
                                            ELSE b.max[(face \div 2) + 1],
                            ((face \div 2) + 1) % 3, ((face \div 2) + 2) % 3,
                            depth))

\* `if depth == f32::MAX { None } else { Some(depth) }`
DepthResult(depth) == IF depth = F32_MAX THEN None ELSE Some(depth)

aabb_intersection_test_using_triangles(b, r) ==
    IF contains_point(b, r.pos) THEN Some(QI(0))
    ELSE DepthResult(TestFaces(b, r, 0, F32_MAX))

(***************************************************************************)
(* Matrices, scenes and the two engines.  A Mat4 is a tuple of 4 rows of   *)
(* 4 rationals, a Mat3x4 a tuple of 3 such rows.  A Scene is a record of   *)
(* meshes (vertices, indices) and objects (mesh_index, transform).         *)
(***************************************************************************)
Sum4(a, b, c, d) == QAdd(QAdd(QAdd(a, b), c), d)

\* Mat4 * Vec4 and Mat3x4 * Vec4
MatVec(m, v) ==
    [i \in 1..Len(m) |->
        Sum4(QMul(m[i][1], v[1]), QMul(m[i][2], v[2]),
             QMul(m[i][3], v[3]), QMul(m[i][4], v[4]))]

\* Mat4 * Mat4
MatMul(a, b) ==
    [i \in 1..4 |-> [j \in 1..4 |->
        Sum4(QMul(a[i][1], b[1][j]), QMul(a[i][2], b[2][j]),
             QMul(a[i][3], b[3][j]), QMul(a[i][4], b[4][j]))]]

mat3x4_to_mat4(mat) ==
    <<mat[1], mat[2], mat[3], <<QI(0), QI(0), QI(0), QI(1)>>>>

Vec4(p, w) == <<p[1], p[2], p[3], w>>

\* vec4_to_vec3(&p) / p[3]
Dehomogenize(p) == <<QDiv(p[1], p[4]), QDiv(p[2], p[4]), QDiv(p[3], p[4])>>

transform_vec3(t, p) == Dehomogenize(MatVec(t, Vec4(p, QI(1))))

\* normalized device coordinates to window coordinates
ToWindow(width, height, p) ==
    <<QMul(QAdd(QMul(p[1], Q(1, 2)), Q(1, 2)), QI(width)),
      QMul(QAdd(QMul(p[2], Q(1, 2)), Q(1, 2)), QI(height)),
      QMul(QAdd(QI(1), p[3]), Q(1, 2))>>

project_pos(width, height, t, p) == ToWindow(width, height, transform_vec3(t, p))

\* determinant of a 3x3 matrix given by its entries, row by row
Det3(a, b, c, d, e, f, g, h, i) ==
    QAdd(QSub(QMul(a, QSub(QMul(e, i), QMul(f, h))),
              QMul(b, QSub(QMul(d, i), QMul(f, g)))),
         QMul(c, QSub(QMul(d, h), QMul(e, g))))

\* the n-th (1..3) of the indices 1..4 other than k
Skip(k, n) == IF n < k THEN n ELSE n + 1

\* determinant of m without row r and column c
Minor(m, r, c) ==
    Det3(m[Skip(r, 1)][Skip(c, 1)], m[Skip(r, 1)][Skip(c, 2)], m[Skip(r, 1)][Skip(c, 3)],
         m[Skip(r, 2)][Skip(c, 1)], m[Skip(r, 2)][Skip(c, 2)], m[Skip(r, 2)][Skip(c, 3)],
         m[Skip(r, 3)][Skip(c, 1)], m[Skip(r, 3)][Skip(c, 2)], m[Skip(r, 3)][Skip(c, 3)])

Cofactor(m, r, c) ==
    IF (r + c) % 2 = 0 THEN Minor(m, r, c) ELSE QNeg(Minor(m, r, c))

Det4(m) ==
    Sum4(QMul(m[1][1], Cofactor(m, 1, 1)), QMul(m[1][2], Cofactor(m, 1, 2)),
         QMul(m[1][3], Cofactor(m, 1, 3)), QMul(m[1][4], Cofactor(m, 1, 4)))

InverseWithDet(m, det) ==
    IF det[1] = 0 THEN None
    ELSE Some([i \in 1..4 |-> [j \in 1..4 |-> QDiv(Cofactor(m, j, i), det)]])

\* Mat4::try_inverse: None when the determinant is zero
try_inverse(m) == InverseWithDet(m, Det4(m))

\* the camera position is the point the view matrix maps to the origin
CameraFromInverse(inv) ==
    IF inv = None THEN ZeroVec
    ELSE <<inv[1][1][4], inv[1][2][4], inv[1][3][4]>>

extract_camera_pos_from_view_matrix(view_matrix) ==
    CameraFromInverse(try_inverse(view_matrix))

\* ---- rasterizer culler ----

\* the loop over mesh.indices from the k-th triangle on
RECURSIVE RasterizeTriangles(_, _, _, _, _, _)
RasterizeTriangles(r, frame_size, object_id, transform, mesh, k) ==
    IF k > Len(mesh.indices) THEN r
    ELSE RasterizeTriangles(
            rasterize(r, object_id,
                      project_pos(frame_size, frame_size, transform,
                                  mesh.vertices[mesh.indices[k][1] + 1]),
                      project_pos(frame_size, frame_size, transform,
                                  mesh.vertices[mesh.indices[k][2] + 1]),
                      project_pos(frame_size, frame_size, transform,
                                  mesh.vertices[mesh.indices[k][3] + 1])),
            frame_size, object_id, transform, mesh, k + 1)

\* the loop over scene.objects from the object with the given id (0-based) on
RECURSIVE RasterizeObjects(_, _, _, _, _)
RasterizeObjects(r, frame_size, sc, t, object_id) ==
    IF object_id >= Len(sc.objects) THEN r
    ELSE RasterizeObjects(
            RasterizeTriangles(
                r, frame_size, object_id,
                MatMul(t, mat3x4_to_mat4(sc.objects[object_id + 1].transform)),
                sc.meshes[sc.objects[object_id + 1].mesh_index + 1], 1),
            frame_size, sc, t, object_id + 1)

\* mutant: the triangles of every mesh are counted, instanced or not
RECURSIVE NumTrianglesOfMeshes(_, _)
NumTrianglesOfMeshes(sc, object_id) ==
    IF object_id >= Len(sc.meshes) THEN 0
    ELSE Len(sc.meshes[object_id + 1].indices) + NumTrianglesOfMeshes(sc, object_id + 1)

\* stats.num_triangles of a call that visits every triangle of every object
RECURSIVE NumTriangles(_, _)
NumTriangles(sc, object_id) ==
    IF object_id >= Len(sc.objects) THEN 0
    ELSE Len(sc.meshes[sc.objects[object_id + 1].mesh_index + 1].indices)
         + NumTriangles(sc, object_id + 1)

\* the rasterizer after rasterize_data
rasterize_data(r, frame_size, sc, view_matrix, projection_matrix) ==
    RasterizeObjects(r, frame_size, sc, MatMul(projection_matrix, view_matrix), 0)

\* the call's result once the rasterizer r has been drawn and the
\* visibility aggregated
CullerReturn(r, agg, sc) ==
    [rasterizer |-> Leave(r), visibility |-> agg.visibility,
     stats |-> [num_triangles |-> NumTriangles(sc, 0)], panic |-> agg.panic]

\* a panic inside rasterize_data ends the call
CullerResult(r, vis, sc) ==
    IF r.panic
    THEN [rasterizer |-> Leave(r), visibility |-> vis, stats |-> Unused,
          panic |-> TRUE]
    ELSE CullerReturn(r,
                      compute_visibility_from_id_buffer(vis, r.id_buffer,
                                                        Len(sc.objects)),
                      sc)

\* RasterizerCuller::compute_visibility with frame = None
RasterizerCullerComputeVisibility(r, vis, frame_size, sc, view_matrix, projection_matrix) ==
    CullerResult(
        rasterize_data(Enter(RasterizerClear(r)), frame_size, sc, view_matrix,
                       projection_matrix),
        vis, sc)

\* compute_visibility of the culler of rasterizer/rasterizer_culler.rs with
\* frame = None: the rasterizer is not cleared
LegacyCullerComputeVisibility(r, vis, frame_size, sc, view_matrix, projection_matrix) ==
    CullerResult(
        rasterize_data(Enter(r), frame_size, sc, view_matrix, projection_matrix),
        vis, sc)

\* ---- naive raycaster ----

\* Mat3x4 * Vec4(v, 1)
transform(m, v) == MatVec(m, Vec4(v, QI(1)))

\* AABB::new
AABBNew ==
    [min |-> <<F32_MAX, F32_MAX, F32_MAX>>, max |-> <<F32_MIN, F32_MIN, F32_MIN>>]

extend_pos(b, p) ==
    [min |-> [k \in 1..3 |-> f32_min(b.min[k], p[k])],
     max |-> [k \in 1..3 |-> f32_max(b.max[k], p[k])]]

\* AABB::from_iter over the transformed vertices from the k-th on
RECURSIVE ExtendIter(_, _, _, _)
ExtendIter(b, m, vertices, k) ==
    IF k > Len(vertices) THEN b
    ELSE ExtendIter(extend_pos(b, transform(m, vertices[k])), m, vertices, k + 1)

\* the volumes of SceneWithVolumes
build_acceleration_structures(sc) ==
    [i \in 1..Len(sc.objects) |->
        ExtendIter(AABBNew, sc.objects[i].transform,
                   sc.meshes[sc.objects[i].mesh_index + 1].vertices, 1)]

\* the division by v[3] when it is not zero
UnProjected(v) == IF v[4][1] # 0 THEN Dehomogenize(v) ELSE <<v[1], v[2], v[3]>>

un_project(frame_size, inv_pmmat, win) ==
    UnProjected(
        MatVec(inv_pmmat,
               <<QSub(QMul(QDiv(win[1], QI(frame_size)), QI(2)), QI(1)),
                 QSub(QMul(QDiv(win[2], QI(frame_size)), QI(2)), QI(1)),
                 QSub(QMul(QI(2), win[3]), QI(1)),
                 QI(1)>>))

\* TestStats::default(); the raycaster's TestStats has the two counters
TestStatsDefault == [num_triangles |-> 0, num_volume_tests |-> 0]

\* a cell is the state of one pixel's loop: depth, the id written, the
\* triangles and the volume tests counted, and the objects whose volume test
\* did not miss
HitCell(cell, object_id, hit) ==
    IF hit # None /\ f32_gt(cell.depth, hit[1])
    THEN [cell EXCEPT !.depth = hit[1], !.id = Some(object_id),
                      !.num_triangles = cell.num_triangles + 1]
    ELSE [cell EXCEPT !.num_triangles = cell.num_triangles + 1]

\* the loop over mesh.indices from the k-th triangle on
RECURSIVE CastTriangles(_, _, _, _, _, _)
CastTriangles(cell, r, object_id, m, mesh, k) ==
    IF k > Len(mesh.indices) THEN cell
    ELSE CastTriangles(
            HitCell(cell, object_id,
                    triangle_ray(transform(m, mesh.vertices[mesh.indices[k][1] + 1]),
                                 transform(m, mesh.vertices[mesh.indices[k][2] + 1]),
                                 transform(m, mesh.vertices[mesh.indices[k][3] + 1]),
                                 r, Some(cell.depth))),
            r, object_id, m, mesh, k + 1)

\* mutant: the volume tests are not counted
CountNoVolumeTest(cell) == cell

\* stats.num_volume_tests += 1
CountVolumeTest(cell) == [cell EXCEPT !.num_volume_tests = @ + 1]

\* the volume test of the object did not miss
VolumeTestPassed(cell, object_id) == [cell EXCEPT !.passed = Append(@, object_id)]

\* the loop over scene.objects from the object with the given id (0-based) on
RECURSIVE CastObjects(_, _, _, _, _)
CastObjects(cell, r, sc, volumes, object_id) ==
    IF object_id >= Len(sc.objects) THEN cell
    ELSE IF aabb_ray(volumes[object_id + 1], r, Some(cell.depth)) = None
         THEN CastObjects(CountVolumeTest(cell), r, sc, volumes, object_id + 1)
    ELSE CastObjects(
            CastTriangles(VolumeTestPassed(CountVolumeTest(cell), object_id),
                          r, object_id, sc.objects[object_id + 1].transform,
                          sc.meshes[sc.objects[object_id + 1].mesh_index + 1], 1),
            r, sc, volumes, object_id + 1)

\* the body of the loops over y and x for the cell with the given index
CastCell(old_id, index, frame_size, sc, volumes, x0, inv_pmmat) ==
    CastObjects(
        [depth |-> F32_MAX, id |-> old_id, num_triangles |-> 0,
         num_volume_tests |-> 0, passed |-> <<>>],
        from_pos(x0,
                 un_project(frame_size, inv_pmmat,
                            <<QAdd(QI(index % frame_size), Q(1, 2)),
                              QAdd(QI(index \div frame_size), Q(1, 2)),
                              QI(1)>>)),
        sc, volumes, 0)

RECURSIVE SumTriangles(_, _)
SumTriangles(cells, k) ==
    IF k > Len(cells) THEN 0 ELSE cells[k].num_triangles + SumTriangles(cells, k + 1)

RECURSIVE SumVolumeTests(_, _)
SumVolumeTests(cells, k) ==
    IF k > Len(cells) THEN 0
    ELSE cells[k].num_volume_tests + SumVolumeTests(cells, k + 1)

RaycastCells(buf, frame_size, sc, volumes, x0, inv_pmmat) ==
    [i \in 1..Len(buf) |->
        CastCell(buf[i], i - 1, frame_size, sc, volumes, x0, inv_pmmat)]

\* id_buffer and stats after raycast_data, and per cell the objects whose
\* volume test did not miss
RaycastResult(buf, cells) ==
    [id_buffer |-> [i \in 1..Len(buf) |-> cells[i].id],
     stats |-> [num_triangles |-> SumTriangles(cells, 1),
                num_volume_tests |-> SumVolumeTests(cells, 1)],
     passed |-> [i \in 1..Len(buf) |-> cells[i].passed]]

RaycastWithInverse(buf, frame_size, sc, volumes, x0, inv) ==
    IF inv = None
    THEN [id_buffer |-> buf, stats |-> TestStatsDefault,
          passed |-> [i \in 1..Len(buf) |-> <<>>]]
    ELSE RaycastResult(buf, RaycastCells(buf, frame_size, sc, volumes, x0, inv[1]))

raycast_data(buf, frame_size, sc, volumes, view_matrix, projection_matrix) ==
    RaycastWithInverse(buf, frame_size, sc, volumes,
                       extract_camera_pos_from_view_matrix(view_matrix),
                       try_inverse(MatMul(projection_matrix, view_matrix)))

\* the call's result once the rays have been cast
RaycasterResult(cast, agg) ==
    [id_buffer |-> cast.id_buffer, visibility |-> agg.visibility,
     stats |-> cast.stats, passed |-> cast.passed, panic |-> agg.panic]

AggregateCast(cast, vis, sc) ==
    RaycasterResult(cast,
                    compute_visibility_from_id_buffer(vis, cast.id_buffer,
                                                      Len(sc.objects)))

\* mutant: the id buffer is not emptied at the start of the call
NaiveRaycasterKeepsIds(buf, vis, frame_size, sc, volumes, view_matrix, projection_matrix) ==
    AggregateCast(
        raycast_data(buf, frame_size, sc, volumes, view_matrix, projection_matrix),
        vis, sc)

\* NaiveRaycaster::compute_visibility with frame = None
NaiveRaycasterComputeVisibility(buf, vis, frame_size, sc, volumes, view_matrix, projection_matrix) ==
    AggregateCast(
        raycast_data([i \in 1..Len(buf) |-> None], frame_size, sc, volumes,
                     view_matrix, projection_matrix),
        vis, sc)

(***************************************************************************)
(* Specification of one rasterizer driven by rasterize and clear calls.    *)
(***************************************************************************)
\* window coordinates of the vertices handed to rasterize: inside, on the
\* border and outside of the frame, at two depths
RasterVerts ==
    { <<Q(-1, 1), Q(0, 1), Q(1, 4)>>,
      <<Q(3, 1), Q(0, 1), Q(3, 4)>>,
      <<Q(1, 2), Q(4, 1), Q(1, 4)>>,
      <<Q(3, 1), Q(3, 2), Q(3, 4)>>,
      <<Q(1, 2), Q(3, 2), Q(1, 4)>>,
      <<Q(0, 1), Q(3, 1), Q(3, 4)>> }

InitRaster ==
    /\ rasterizer = RasterizerNew(FrameSize, FrameSize)
    /\ panicked = FALSE
    /\ lastOp = "new"
    /\ numOps = 0
    /\ id_buffer = Unused
    /\ num_objects = 0
    /\ visibility = Unused
    /\ prior = Unused
    /\ frame = Unused
    /\ bytes = Unused
    /\ frameRead = Unused
    /\ IsectUnused
    /\ EngineUnused
    /\ AuxUnused

Rasterize ==
    /\ numOps < MaxOps
    /\ ~panicked
    /\ \E id \in 0..(NumIds - 1), p0 \in RasterVerts, p1 \in RasterVerts,
          p2 \in RasterVerts :
          LET r == rasterize(Enter(rasterizer), id, p0, p1, p2)
          IN  /\ rasterizer' = Leave(r)
              /\ panicked' = r.panic
    /\ before' = rasterizer
    /\ lastOp' = "rasterize"
    /\ numOps' = numOps + 1
    /\ UNCHANGED <<aggVars, frameVars, isectVars, engineVars>>
    /\ UNCHANGED <<iterVars, execVars, statsVars, fragment, quantVars, lateVars>>

Clear ==
    /\ numOps < MaxOps
    /\ ~panicked
    /\ rasterizer' = RasterizerClear(rasterizer)
    /\ before' = rasterizer
    /\ lastOp' = "clear"
    /\ numOps' = numOps + 1
    /\ UNCHANGED <<panicked, aggVars, frameVars, isectVars, engineVars>>
    /\ UNCHANGED <<iterVars, execVars, statsVars, fragment, quantVars, lateVars>>

NextRaster == Rasterize \/ Clear

SpecRaster == InitRaster /\ [][NextRaster]_vars

\* C1: after clear() the rasterizer equals a freshly constructed one of the
\* same size: width*height depth cells all equal to D::MAX, and every id
\* cell empty.
C1_ClearEqualsNew ==
    lastOp = "clear" =>
        /\ Len(rasterizer.depth_buffer) = rasterizer.width * rasterizer.height
        /\ rasterizer = RasterizerNew(rasterizer.width, rasterizer.height)

(***************************************************************************)
(* Specification of the aggregator as a function of its three arguments:   *)
(* every id buffer of up to MaxPixels cells over up to MaxObjects objects, *)
(* and several prior contents of the output vector.                        *)
(***************************************************************************)
RECURSIVE SeqsUpTo(_, _)
SeqsUpTo(S, n) ==
    IF n = 0 THEN {<<>>}
    ELSE LET shorter == SeqsUpTo(S, n - 1)
         IN  shorter \cup {Append(t, x) : t \in {u \in shorter : Len(u) = n - 1}, x \in S}

PriorVisibilities ==
    { <<>>,
      <<<<5, Q(1, 2)>>>>,
      <<<<1, Q(1, 1)>>, <<1, Q(1, 1)>>, <<9, Q(3, 1)>>, <<0, Q(1, 4)>>, <<2, Q(1, 1)>>>> }

InitAgg ==
    /\ num_objects \in 0..MaxObjects
    /\ id_buffer \in SeqsUpTo({None} \cup {Some(i) : i \in 0..(num_objects - 1)}, MaxPixels)
    /\ visibility \in PriorVisibilities
    /\ prior = visibility
    /\ panicked = FALSE
    /\ lastOp = "new"
    /\ numOps = 0
    /\ rasterizer = Unused
    /\ frame = Unused
    /\ bytes = Unused
    /\ frameRead = Unused
    /\ IsectUnused
    /\ EngineUnused
    /\ AuxUnused

Aggregate ==
    /\ lastOp = "new"
    /\ LET res == compute_visibility_from_id_buffer(visibility, id_buffer, num_objects)
       IN  /\ visibility' = res.visibility
           /\ panicked' = res.panic
    /\ prior' = visibility
    /\ lastOp' = "aggregate"
    /\ numOps' = numOps + 1
    /\ UNCHANGED <<id_buffer, num_objects, rasterVars, frameVars, isectVars, engineVars>>
    /\ UNCHANGED auxVars

NextAgg == Aggregate

SpecAgg == InitAgg /\ [][NextAgg]_vars

\* sum of the coverages of a visibility vector without NaN entries
RECURSIVE SumCoverage(_)
SumCoverage(vis) ==
    IF vis = <<>> THEN QI(0)
    ELSE QAdd(vis[Len(vis)][2], SumCoverage(SubSeq(vis, 1, Len(vis) - 1)))

Returned == lastOp = "aggregate" /\ ~panicked

VisibilityComplete ==
    /\ Returned
    /\ Len(visibility) = num_objects
    /\ \A i \in 0..(num_objects - 1) :
          Cardinality({k \in 1..Len(visibility) : visibility[k][1] = i}) = 1
    /\ \A k \in 1..Len(visibility) :
          /\ ~IsNaN(visibility[k][2])
          /\ QLe(QI(0), visibility[k][2])
          /\ QLe(visibility[k][2], QI(1))
    /\ QLe(SumCoverage(visibility), QI(1))

C5_SortedDescending ==
    Returned =>
        \A k \in 1..(Len(visibility) - 1) :
            QLe(visibility[k + 1][2], visibility[k][2])

C5_Witness ==
    /\ Returned
    /\ Len(visibility) = 3
    /\ visibility[1][1] = 2
    /\ visibility[3][2] = QI(0)
    /\ QLt(visibility[2][2], visibility[1][2])

\* C6: the coverage reported for object i is the number of cells holding i
\* divided by the number N of all cells, empty ones included (N >= 1, the
\* quotient being undefined otherwise).
C6_CoverageIsScreenFraction ==
    (Returned /\ Len(id_buffer) >= 1) =>
        \A k \in 1..Len(visibility) :
            LET i == visibility[k][1]
                cells == {c \in 1..Len(id_buffer) : id_buffer[c] = Some(i)}
            IN  visibility[k][2][1] * Len(id_buffer)
                    = Cardinality(cells) * visibility[k][2][2]

C6_Witness ==
    /\ Returned
    /\ Len(id_buffer) = 4
    /\ Cardinality({c \in 1..4 : id_buffer[c] = None}) = 2
    /\ \E k \in 1..Len(visibility) : visibility[k] = <<1, Q(1, 4)>>

(***************************************************************************)
(* Specification of the binary frame format: a Frame is written and the    *)
(* bytes are read back.                                                    *)
(***************************************************************************)
FrameDims == {USize(n) : n \in 0..MaxFrameDim} \cup {USizeTwoTo32}
FrameIds == {None, Some(U32(0)), Some(U32(Half + 2)), Some(U32Max)}
\* the bit patterns of the f32 values 0.25 and 1.0
FrameDepths == {<<16000, 0>>, <<16256, 0>>}

FrameShapes ==
    {wh \in FrameDims \X FrameDims :
        NumCells(wh[1], wh[2]) >= 0 /\ NumCells(wh[1], wh[2]) <= MaxFrameCells}

RECURSIVE SeqsOfLen(_, _)
SeqsOfLen(S, n) ==
    IF n = 0 THEN {<<>>}
    ELSE {Append(t, x) : t \in SeqsOfLen(S, n - 1), x \in S}

InitFrame ==
    /\ \E wh \in FrameShapes :
        \E ids \in SeqsOfLen(FrameIds, NumCells(wh[1], wh[2])) :
            \E d \in {None} \cup
                     {Some(ds) : ds \in SeqsOfLen(FrameDepths, NumCells(wh[1], wh[2]))} :
                frame = [width |-> wh[1], height |-> wh[2],
                         id_buffer |-> ids, depth_buffer |-> d]
    /\ bytes = <<>>
    /\ frameRead = Unused
    /\ lastOp = "new"
    /\ numOps = 0
    /\ panicked = FALSE
    /\ rasterizer = Unused
    /\ id_buffer = Unused
    /\ num_objects = 0
    /\ visibility = Unused
    /\ prior = Unused
    /\ IsectUnused
    /\ EngineUnused
    /\ AuxUnused

WriteBinary ==
    /\ lastOp = "new"
    /\ bytes' = write_binary(frame)
    /\ lastOp' = "write_binary"
    /\ numOps' = numOps + 1
    /\ UNCHANGED <<frame, frameRead, panicked, rasterVars, aggVars, isectVars, engineVars>>
    /\ UNCHANGED auxVars

ReadBinary ==
    /\ lastOp = "write_binary"
    /\ frameRead' = read_binary(bytes)
    /\ lastOp' = "read_binary"
    /\ numOps' = numOps + 1
    /\ UNCHANGED <<frame, bytes, panicked, rasterVars, aggVars, isectVars, engineVars>>
    /\ UNCHANGED auxVars

NextFrame == WriteBinary \/ ReadBinary

SpecFrame == InitFrame /\ [][NextFrame]_vars

RoundTrips == frameRead.ok /\ frameRead.frame = frame

\* C7 as stated: for any Frame (any width and height, any id-buffer
\* contents including any u32 id, with or without depths), reading the
\* written bytes returns a Frame equal to it field by field.
C7_Original == lastOp = "read_binary" => RoundTrips

\* C7 amended: the same for every Frame whose width and height fit a u32
\* and none of whose id cells holds Some(u32::MAX).
C7_RoundTrip ==
    (/\ lastOp = "read_binary"
     /\ frame.width.hi = 0
     /\ frame.height.hi = 0
     /\ \A k \in 1..Len(frame.id_buffer) : frame.id_buffer[k] # Some(U32Max))
    => RoundTrips

C7_Witness ==
    /\ lastOp = "read_binary"
    /\ RoundTrips
    /\ frame.width = USize(2)
    /\ frame.height = USize(2)
    /\ frame.depth_buffer # None
    /\ frame.id_buffer[1] = None
    /\ frame.id_buffer[2] = Some(U32(Half + 2))
    /\ frame.depth_buffer[1][3] = <<16256, 0>>

(***************************************************************************)
(* Specification of the AABB intersection routines as functions of a box   *)
(* and a ray on a small integer grid.                                      *)
(***************************************************************************)
QVec(x, y, z) == <<QI(x), QI(y), QI(z)>>

\* a cube, a box with unequal edges, and a flat box (the AABB of a quad)
Boxes ==
    { [min |-> QVec(0, 0, 0), max |-> QVec(MaxCoord, MaxCoord, MaxCoord)],
      [min |-> QVec(0, 0, 1), max |-> QVec(MaxCoord, 1, MaxCoord)],
      [min |-> QVec(0, 0, 1), max |-> QVec(MaxCoord, MaxCoord, 1)] }

RayOrigins == {QVec(x, y, z) : x \in -1..(MaxCoord - 1), y \in -1..(MaxCoord - 1),
                               z \in -1..(MaxCoord - 1)}
RaySteps == {QVec(x, y, z) : x \in -1..MaxCoord, y \in -1..MaxCoord,
                             z \in -1..MaxCoord} \ {ZeroVec}

InitIsect ==
    /\ aabb \in Boxes
    /\ \E x0 \in RayOrigins, dx \in RaySteps : ray = from_pos(x0, VAdd(x0, dx))
    /\ tri = Unused
    /\ f1 = Unused
    /\ f2 = Unused
    /\ lastOp = "new"
    /\ numOps = 0
    /\ panicked = FALSE
    /\ rasterizer = Unused
    /\ id_buffer = Unused
    /\ num_objects = 0
    /\ visibility = Unused
    /\ prior = Unused
    /\ frame = Unused
    /\ bytes = Unused
    /\ frameRead = Unused
    /\ EngineUnused
    /\ AuxUnused

TestAabbRay ==
    /\ lastOp = "new"
    /\ f1' = aabb_ray(aabb, ray, None)
    /\ f2' = aabb_intersection_test_using_triangles(aabb, ray)
    /\ lastOp' = "test_aabb_ray"
    /\ numOps' = numOps + 1
    /\ UNCHANGED <<aabb, tri, ray, panicked, rasterVars, aggVars, frameVars,
                   engineVars>>
    /\ UNCHANGED auxVars

NextIsect == TestAabbRay

SpecIsect == InitIsect /\ [][NextIsect]_vars

\* C9: for a ray whose origin is outside the box, aabb_ray reports a hit
\* exactly when one of the 12 triangles of the tessellation is hit, and
\* with the minimum triangle-hit parameter; for an origin inside the box
\* aabb_ray returns 0.
C9_SlabAgreesWithTessellation ==
    lastOp = "test_aabb_ray" =>
        IF contains_point(aabb, ray.pos) THEN f1 = Some(QI(0)) ELSE f1 = f2

(***************************************************************************)
(* Specification of triangle_ray applied to a triangle and to the same     *)
(* triangle with reversed winding.                                         *)
(***************************************************************************)
\* the last triangle of each row is degenerate
Triangles ==
    { <<QVec(0, 0, 0), p1, p2>> :
        p1 \in {QVec(MaxCoord, 0, 0), QVec(0, MaxCoord, 1)},
        p2 \in {QVec(0, MaxCoord, 0), QVec(MaxCoord, MaxCoord, 0),
                QVec(0, 0, MaxCoord), QVec(MaxCoord, 0, 0)} }

InitTri ==
    /\ tri \in Triangles
    /\ \E x0 \in RayOrigins, dx \in RaySteps : ray = from_pos(x0, VAdd(x0, dx))
    /\ aabb = Unused
    /\ f1 = Unused
    /\ f2 = Unused
    /\ lastOp = "new"
    /\ numOps = 0
    /\ panicked = FALSE
    /\ rasterizer = Unused
    /\ id_buffer = Unused
    /\ num_objects = 0
    /\ visibility = Unused
    /\ prior = Unused
    /\ frame = Unused
    /\ bytes = Unused
    /\ frameRead = Unused
    /\ EngineUnused
    /\ AuxUnused

TriangleRay ==
    /\ lastOp = "new"
    /\ f1' = triangle_ray(tri[1], tri[2], tri[3], ray, None)
    /\ f2' = triangle_ray(tri[1], tri[3], tri[2], ray, None)
    /\ lastOp' = "triangle_ray"
    /\ numOps' = numOps + 1
    /\ UNCHANGED <<aabb, tri, ray, panicked, rasterVars, aggVars, frameVars,
                   engineVars>>
    /\ UNCHANGED auxVars

NextTri == TriangleRay

SpecTri == InitTri /\ [][NextTri]_vars

\* C10 as stated: a ray that hits the triangle (p0, p1, p2) misses the
\* triangle with reversed winding (p0, p2, p1).
C10_Original ==
    (lastOp = "triangle_ray" /\ f1 # None) => f2 = None

\* C10: triangle_ray is two-sided: the triangle with reversed winding
\* (p0, p2, p1) is hit exactly when (p0, p1, p2) is hit, and with the same
\* parameter.
C10_TwoSided ==
    lastOp = "triangle_ray" => f1 = f2

C10_Witness ==
    /\ lastOp = "triangle_ray"
    /\ f1 # None
    /\ QLt(QI(0), f1[1])
    /\ f2 = f1
    /\ QLt(QI(0), Dot(from_triangle(tri[1], tri[3], tri[2]).n, ray.dir))

(***************************************************************************)
(* Specification of one engine instance (rasterizer culler, the culler of  *)
(* rasterizer/rasterizer_culler.rs, or naive raycaster) constructed for a  *)
(* scene and driven by compute_visibility calls, the caller handing the    *)
(* same Visibility vector to every call as the executor does.              *)
(***************************************************************************)
Diag4(a, b, c) ==
    <<<<a, QI(0), QI(0), QI(0)>>, <<QI(0), b, QI(0), QI(0)>>,
      <<QI(0), QI(0), c, QI(0)>>, <<QI(0), QI(0), QI(0), QI(1)>>>>

Identity4 == Diag4(QI(1), QI(1), QI(1))

\* a Mat3x4 that translates along z
TranslateZ(z) ==
    <<<<QI(1), QI(0), QI(0), QI(0)>>, <<QI(0), QI(1), QI(0), QI(0)>>,
      <<QI(0), QI(0), QI(1), z>>>>

\* two triangles covering the whole viewport at depth z
Quad(z) ==
    [vertices |-> <<<<QI(-1), QI(-1), z>>, <<QI(1), QI(-1), z>>,
                    <<QI(1), QI(1), z>>, <<QI(-1), QI(1), z>>>>,
     indices |-> <<<<0, 1, 2>>, <<0, 2, 3>>>>]

EmptyScene == [meshes |-> <<>>, objects |-> <<>>]

SingleQuad ==
    [meshes |-> <<Quad(Q(1, 2))>>,
     objects |-> <<[mesh_index |-> 0, transform |-> TranslateZ(QI(0))]>>]

TwoQuads ==
    [meshes |-> <<Quad(Q(-1, 2)), Quad(Q(1, 2))>>,
     objects |-> <<[mesh_index |-> 0, transform |-> TranslateZ(QI(0))],
                   [mesh_index |-> 1, transform |-> TranslateZ(QI(0))]>>]

\* one mesh instantiated twice, the first instance behind the second
TwoInstances ==
    [meshes |-> <<Quad(QI(0))>>,
     objects |-> <<[mesh_index |-> 0, transform |-> TranslateZ(Q(1, 2))],
                   [mesh_index |-> 0, transform |-> TranslateZ(Q(-1, 2))]>>]

\* a mesh that no object instantiates
MeshOnly == [meshes |-> <<Quad(QI(0))>>, objects |-> <<>>]

Scenes == {EmptyScene, MeshOnly, SingleQuad, TwoQuads, TwoInstances}

\* identity, a view looking the other way, a view that moves the scene out
\* of the depth range, and a view that is not invertible.  Every view is
\* affine with a zero translation, so transform_vec3 divides by 1 and the
\* camera position is the origin.
ViewMatrices ==
    {Identity4, Diag4(QI(1), QI(1), QI(-1)), Diag4(QI(1), QI(1), QI(4)),
     Diag4(QI(1), QI(1), QI(0))}

\* identity and a projection that is not invertible
ProjectionMatrices == {Identity4, Diag4(QI(1), QI(1), QI(0))}

Engines == {"rasterizer", "legacy_rasterizer", "raycaster"}

\* OccOptions.frame_size: a frame without cells and a frame of FrameSize^2 cells
FrameSizes == {0, FrameSize}

InitEngine ==
    /\ engine \in Engines
    /\ scene \in Scenes
    /\ options \in {[frame_size |-> s] : s \in FrameSizes}
    /\ view = Unused
    /\ stats = Unused
    /\ rasterizer = IF engine = "raycaster" THEN Unused
                    ELSE RasterizerNew(options.frame_size, options.frame_size)
    /\ id_buffer = IF engine = "raycaster"
                   THEN [i \in 1..(options.frame_size * options.frame_size) |-> None]
                   ELSE Unused
    /\ visibility = <<>>
    /\ panicked = FALSE
    /\ lastOp = "new"
    /\ numOps = 0
    /\ num_objects = 0
    /\ prior = <<>>
    /\ frame = Unused
    /\ bytes = Unused
    /\ frameRead = Unused
    /\ IsectUnused
    /\ AuxUnused

CullerComputeVisibility ==
    /\ engine = "rasterizer"
    /\ numOps < MaxCalls
    /\ ~panicked
    /\ \E view_matrix \in ViewMatrices, projection_matrix \in ProjectionMatrices :
          /\ view' = [view_matrix |-> view_matrix,
                      projection_matrix |-> projection_matrix]
          /\ \E out \in {RasterizerCullerComputeVisibility(
                            rasterizer, visibility, options.frame_size, scene,
                            view_matrix, projection_matrix)} :
                /\ rasterizer' = out.rasterizer
                /\ visibility' = out.visibility
                /\ stats' = out.stats
                /\ panicked' = out.panic
    /\ prior' = visibility
    /\ lastOp' = "compute_visibility"
    /\ numOps' = numOps + 1
    /\ UNCHANGED <<engine, scene, options, id_buffer, num_objects, frameVars,
                   isectVars>>
    /\ UNCHANGED auxVars

LegacyComputeVisibility ==
    /\ engine = "legacy_rasterizer"
    /\ numOps < MaxCalls
    /\ ~panicked
    /\ \E view_matrix \in ViewMatrices, projection_matrix \in ProjectionMatrices :
          /\ view' = [view_matrix |-> view_matrix,
                      projection_matrix |-> projection_matrix]
          /\ \E out \in {LegacyCullerComputeVisibility(
                            rasterizer, visibility, options.frame_size, scene,
                            view_matrix, projection_matrix)} :
                /\ rasterizer' = out.rasterizer
                /\ visibility' = out.visibility
                /\ stats' = out.stats
                /\ panicked' = out.panic
    /\ prior' = visibility
    /\ lastOp' = "compute_visibility"
    /\ numOps' = numOps + 1
    /\ UNCHANGED <<engine, scene, options, id_buffer, num_objects, frameVars,
                   isectVars>>
    /\ UNCHANGED auxVars

RaycasterComputeVisibility ==
    /\ engine = "raycaster"
    /\ numOps < MaxCalls
    /\ ~panicked
    /\ \E view_matrix \in ViewMatrices, projection_matrix \in ProjectionMatrices :
          /\ view' = [view_matrix |-> view_matrix,
                      projection_matrix |-> projection_matrix]
          /\ \E out \in {NaiveRaycasterComputeVisibility(
                            id_buffer, visibility, options.frame_size, scene,
                            build_acceleration_structures(scene),
                            view_matrix, projection_matrix)} :
                /\ id_buffer' = out.id_buffer
                /\ visibility' = out.visibility
                /\ stats' = out.stats
                /\ panicked' = out.panic
                /\ trace' = out.passed
    /\ prior' = visibility
    /\ lastOp' = "compute_visibility"
    /\ numOps' = numOps + 1
    /\ UNCHANGED <<engine, scene, options, rasterizer, num_objects, frameVars,
                   isectVars>>
    /\ UNCHANGED <<iterVars, execVars, statsVars, pixelVars, quantVars, build,
                   swapped>>

NextEngine ==
    \/ CullerComputeVisibility
    \/ LegacyComputeVisibility
    \/ RaycasterComputeVisibility

SpecEngine == InitEngine /\ [][NextEngine]_vars

IdentityView == [view_matrix |-> Identity4, projection_matrix |-> Identity4]

\* the ID buffer of the engine instance
EngineIds == IF engine = "raycaster" THEN id_buffer ELSE rasterizer.id_buffer

\* C2: on the scene of one object whose two triangles cover the viewport,
\* RasterizerCuller::compute_visibility with identity view and projection
\* returns normally, every pixel holds ID 0, visibility is [(0, 1.0)] and
\* the returned num_triangles is 2.
C2_SingleQuadFillsFrame ==
    (/\ engine = "rasterizer"
     /\ scene = SingleQuad
     /\ options.frame_size = FrameSize
     /\ lastOp = "compute_visibility"
     /\ view = IdentityView)
    => /\ ~panicked
       /\ \A i \in 1..Len(rasterizer.id_buffer) : rasterizer.id_buffer[i] = Some(0)
       /\ visibility = <<<<0, QI(1)>>>>
       /\ stats.num_triangles = 2

\* what a call on the engine instance left behind
Outcome(p, ids, vis) ==
    IF p THEN [panic |-> TRUE] ELSE [panic |-> FALSE, ids |-> ids, visibility |-> vis]

CullerOutcome(out) == Outcome(out.panic, out.rasterizer.id_buffer, out.visibility)

RaycasterOutcome(out) == Outcome(out.panic, out.id_buffer, out.visibility)

\* the outcome of the same view on a freshly constructed engine
FreshOutcome ==
    IF engine = "rasterizer" THEN
        CullerOutcome(RasterizerCullerComputeVisibility(
            RasterizerNew(options.frame_size, options.frame_size), <<>>,
            options.frame_size, scene,
            view.view_matrix, view.projection_matrix))
    ELSE IF engine = "legacy_rasterizer" THEN
        CullerOutcome(LegacyCullerComputeVisibility(
            RasterizerNew(options.frame_size, options.frame_size), <<>>,
            options.frame_size, scene,
            view.view_matrix, view.projection_matrix))
    ELSE
        RaycasterOutcome(NaiveRaycasterComputeVisibility(
            [i \in 1..(options.frame_size * options.frame_size) |-> None], <<>>,
            options.frame_size, scene,
            build_acceleration_structures(scene),
            view.view_matrix, view.projection_matrix))

\* C3: what the k-th compute_visibility call on an engine instance produces
\* (ID buffer and visibility) is what the same view produces on a freshly
\* constructed engine for the same scene.
C3_CallsAreIndependent ==
    lastOp = "compute_visibility" =>
        Outcome(panicked, EngineIds, visibility) = FreshOutcome

\* C8: on the scene of two full-view quads, object 0 at z = -0.5 and object
\* 1 at z = +0.5, with identity view, projection and object transforms, the
\* rasterizer culler and the naive raycaster both return the visibility
\* [(0, 1.0), (1, 0.0)].
C8_FrontQuadOccludesBack ==
    (/\ engine \in {"rasterizer", "raycaster"}
     /\ scene = TwoQuads
     /\ options.frame_size = FrameSize
     /\ lastOp = "compute_visibility"
     /\ view = IdentityView)
    => /\ ~panicked
       /\ visibility = <<<<0, QI(1)>>, <<1, QI(0)>>>>

\* proj * view of the last call has no inverse
SingularView ==
    Det4(MatMul(view.projection_matrix, view.view_matrix)) = QI(0)

\* the raycaster returned zero statistics, an empty ID buffer and coverage 0
\* for every object
EmptyResult ==
    /\ ~panicked
    /\ stats = TestStatsDefault
    /\ \A i \in 1..Len(id_buffer) : id_buffer[i] = None
    /\ Len(visibility) = Len(scene.objects)
    /\ \A k \in 1..Len(visibility) : visibility[k][2] = QI(0)

C16_EmptySceneIsEmpty ==
    (/\ engine = "rasterizer"
     /\ lastOp = "compute_visibility"
     /\ Len(scene.objects) = 0)
    => /\ ~panicked
       /\ \A i \in 1..Len(rasterizer.id_buffer) : rasterizer.id_buffer[i] = None
       /\ visibility = <<>>
       /\ stats = [num_triangles |-> 0]

\* the second call on a culler whose scene has a mesh but no object
C16_Witness ==
    /\ engine = "rasterizer"
    /\ lastOp = "compute_visibility"
    /\ numOps = 2
    /\ scene = MeshOnly
    /\ options.frame_size = FrameSize
    /\ ~panicked
    /\ Len(rasterizer.id_buffer) = FrameSize * FrameSize
    /\ \A i \in 1..Len(rasterizer.id_buffer) : rasterizer.id_buffer[i] = None
    /\ visibility = <<>>
    /\ stats = [num_triangles |-> 0]

(***************************************************************************)
(* TriangleIterator (scene/io_utils.rs).  The underlying index iterator is *)
(* the sequence of the indices not yet consumed.                           *)
(***************************************************************************)
\* Option::unwrap_or_default on an Option<u32>
unwrap_or_default(opt) == IF opt = None THEN 0 ELSE opt[1]

\* Iterator::next of the index iterator: the item and the iterator afterwards
IndicesNext(idx) ==
    IF idx = <<>> THEN [item |-> None, rest |-> <<>>]
    ELSE [item |-> Some(Head(idx)), rest |-> Tail(idx)]

\* the iterator after k calls of next
IndicesSkip(idx, k) == IF Len(idx) <= k THEN <<>> ELSE SubSeq(idx, k + 1, Len(idx))

\* the k-th item (1-based) a fresh index iterator returns
IndicesNth(idx, k) == IF Len(idx) < k THEN None ELSE Some(idx[k])

TriangleIteratorNew(primitive, idx) ==
    IF primitive = "Triangles" THEN
        Some([primitive |-> primitive, indices |-> idx, flip_triangle |-> FALSE,
              v |-> <<0, 0>>])
    ELSE IF primitive \in {"TriangleFan", "TriangleStrip"} THEN
        Some([primitive |-> primitive, indices |-> IndicesSkip(idx, 2),
              flip_triangle |-> FALSE,
              v |-> <<unwrap_or_default(IndicesNth(idx, 1)),
                      unwrap_or_default(IndicesNth(idx, 2))>>])
    ELSE None

\* the Triangles arm: three items of the index iterator, None as soon as one
\* of them is missing
NextTriangles(it) ==
    IF Len(it.indices) < 3
    THEN [iterator |-> [it EXCEPT !.indices = <<>>], item |-> None]
    ELSE [iterator |-> [it EXCEPT !.indices = IndicesSkip(it.indices, 3)],
          item |-> Some(<<it.indices[1], it.indices[2], it.indices[3]>>)]

NextTriangleFan(it, n) ==
    IF n.item = None THEN [iterator |-> [it EXCEPT !.indices = n.rest], item |-> None]
    ELSE [iterator |-> [it EXCEPT !.indices = n.rest, !.v[2] = n.item[1]],
          item |-> Some(<<it.v[1], it.v[2], n.item[1]>>)]

\* mutant: the orientation of the strip's triangles is never flipped
NextTriangleStripNoFlip(it, n) ==
    IF n.item = None THEN [iterator |-> [it EXCEPT !.indices = n.rest], item |-> None]
    ELSE [iterator |-> [it EXCEPT !.indices = n.rest,
                                  !.v = <<it.v[2], n.item[1]>>,
                                  !.flip_triangle = ~it.flip_triangle],
          item |-> Some(<<it.v[1], it.v[2], n.item[1]>>)]

NextTriangleStrip(it, n) ==
    IF n.item = None THEN [iterator |-> [it EXCEPT !.indices = n.rest], item |-> None]
    ELSE [iterator |-> [it EXCEPT !.indices = n.rest,
                                  !.v = <<it.v[2], n.item[1]>>,
                                  !.flip_triangle = ~it.flip_triangle],
          item |-> Some(IF it.flip_triangle
                        THEN <<it.v[2], it.v[1], n.item[1]>>
                        ELSE <<it.v[1], it.v[2], n.item[1]>>)]

\* Iterator::next of the TriangleIterator
TriangleIteratorNext(it) ==
    IF it.primitive = "Triangles" THEN NextTriangles(it)
    ELSE IF it.primitive = "TriangleFan" THEN NextTriangleFan(it, IndicesNext(it.indices))
    ELSE IF it.primitive = "TriangleStrip"
         THEN NextTriangleStrip(it, IndicesNext(it.indices))
    ELSE [iterator |-> it, item |-> None]

(***************************************************************************)
(* Specification of one TriangleIterator created on an index sequence and  *)
(* driven by calls of next.                                                *)
(***************************************************************************)
PrimitiveTypes == {"Lines", "Triangles", "TriangleFan", "TriangleStrip"}

IndexSequences == SeqsUpTo(0..(NumIndexValues - 1), MaxIndices)

InitIter ==
    /\ \E primitive \in PrimitiveTypes :
          /\ indices \in IndexSequences
          /\ iterator = TriangleIteratorNew(primitive, indices)
    /\ triangles = <<>>
    /\ item = Unused
    /\ lastOp = "new"
    /\ panicked = FALSE
    /\ numOps = 0
    /\ rasterizer = Unused
    /\ id_buffer = Unused
    /\ num_objects = Unused
    /\ visibility = Unused
    /\ prior = Unused
    /\ frame = Unused
    /\ bytes = Unused
    /\ frameRead = Unused
    /\ IsectUnused
    /\ EngineUnused
    /\ ExecUnused
    /\ StatsUnused
    /\ PixelUnused
    /\ QuantUnused
    /\ LateUnused

IteratorNext ==
    /\ iterator # None
    /\ \E out \in {TriangleIteratorNext(iterator[1])} :
          /\ iterator' = Some(out.iterator)
          /\ item' = out.item
          /\ triangles' = IF out.item = None THEN triangles
                          ELSE Append(triangles, out.item[1])
    /\ lastOp' = "next"
    /\ UNCHANGED <<indices, panicked, numOps, rasterVars, aggVars, frameVars,
                   isectVars, engineVars, execVars, statsVars, pixelVars,
                   quantVars, lateVars>>

NextIter == IteratorNext

SpecIter == InitIter /\ [][NextIter]_vars

\* the triangles the index sequence idx stands for
ExpectedTriangles(primitive, idx) ==
    IF primitive = "Triangles" THEN
        [k \in 1..(Len(idx) \div 3) |-> <<idx[3 * k - 2], idx[3 * k - 1], idx[3 * k]>>]
    ELSE IF Len(idx) < 3 THEN <<>>
    ELSE IF primitive = "TriangleFan" THEN
        [k \in 1..(Len(idx) - 2) |-> <<idx[1], idx[k + 1], idx[k + 2]>>]
    ELSE
        [j \in 1..(Len(idx) - 2) |->
            IF (j - 1) % 2 = 0 THEN <<idx[j], idx[j + 1], idx[j + 2]>>
            ELSE <<idx[j + 1], idx[j], idx[j + 2]>>]

\* next has returned None
Exhausted == lastOp = "next" /\ item = None

\* C12: the triangles yielded so far are the first ones of the expected
\* sequence (consecutive triples for Triangles, (i_0, i_k, i_k+1) for
\* TriangleFan, (i_k, i_k+1, i_k+2) with the first two swapped for odd k for
\* TriangleStrip, none when n < 3), and once next has returned None all of
\* them have been yielded.
C12_TrianglesOfPrimitive ==
    iterator # None =>
        LET expected == ExpectedTriangles(iterator[1].primitive, indices)
        IN  /\ Len(triangles) <= Len(expected)
            /\ triangles = SubSeq(expected, 1, Len(triangles))
            /\ Exhausted => triangles = expected

\* a strip of five distinct-enough indices has yielded its three triangles,
\* the second one flipped
C12_Witness ==
    /\ iterator # None
    /\ iterator[1].primitive = "TriangleStrip"
    /\ Exhausted
    /\ Len(indices) = 5
    /\ indices[2] # indices[3]
    /\ triangles = <<<<indices[1], indices[2], indices[3]>>,
                     <<indices[3], indices[2], indices[4]>>,
                     <<indices[3], indices[4], indices[5]>>>>

(***************************************************************************)
(* TestExecutor (executor.rs).  run is modelled step by step: initialize,  *)
(* then per setup the prologue of test_setup (directory, indexed scene,    *)
(* engine, visibility vector), then one step per view.  events records the *)
(* calls made on the engine types; the engine instance itself lives in the *)
(* variables of the engine specification.  trace records the frame files   *)
(* run has tried to create and to write; the timing nodes are modelled     *)
(* with Stats.                                                             *)
(***************************************************************************)
\* the engine the dispatch of run hands a NaiveRaycaster selection to
NaiveRaycasterArm == "raycaster"

\* match setup { ... } of run: the engine type test_setup is instantiated with
TesterOf(setup) == IF setup = "Rasterizer" THEN "rasterizer" ELSE NaiveRaycasterArm

\* run after the setup at position pc.setup: the next setup
NextSetup == [at |-> "setup", setup |-> pc.setup + 1, view |-> 0]

\* the loop over the views after the view with index pc.view
NextView ==
    IF pc.view + 1 < Len(config.views)
    THEN [pc EXCEPT !.view = pc.view + 1]
    ELSE NextSetup

ExecSetups == SeqsUpTo({"Rasterizer", "NaiveRaycaster"}, MaxSetups)

\* views in front of the scene and one that moves it out of the depth range
ExecViews ==
    SeqsUpTo({[view_matrix |-> Identity4, projection_matrix |-> Identity4],
              [view_matrix |-> Diag4(QI(1), QI(1), QI(4)),
               projection_matrix |-> Identity4]}, MaxViews)

\* T::get_name() of the engine types
Testers == {"rasterizer", NaiveRaycasterArm}

\* the frame file the file system refuses: none, or the file of one view
\* index, which cannot be created or cannot be written
BadFiles ==
    {None} \cup {Some([view |-> k, at |-> a]) :
                    k \in 0..(MaxViews - 1), a \in {"create", "write"}}

\* the directories the file system lets the executor create (out_dir, and
\* per engine name the setup directory) and the frame file it refuses
FileSystems == [out_dir : BOOLEAN, setup_dir : SUBSET Testers, bad_file : BadFiles]

\* every answer of the file system is to a request run can make: without
\* the output directory no other request is made, and only the frame file
\* of an existing view is requested, if frames are written at all
Requested(c, f) ==
    /\ ~f.out_dir => f.setup_dir = Testers /\ f.bad_file = None
    /\ f.bad_file # None =>
          c.write_frames /\ f.bad_file[1].view < Len(c.views)

\* the executor after TestExecutor::new, for a set of configurations, of
\* file systems and of scenes
ExecNew(configs, filesystems, scenes) ==
    /\ config \in configs
    /\ fs \in filesystems
    /\ Requested(config, fs)
    /\ scene \in scenes
    /\ pc = [at |-> "start", setup |-> 0, view |-> 0]
    /\ events = <<>>
    /\ engine = Unused
    /\ options = Unused
    /\ view = Unused
    /\ stats = Unused
    /\ rasterizer = Unused
    /\ id_buffer = Unused
    /\ visibility = Unused
    /\ panicked = FALSE
    /\ lastOp = "new"
    /\ numOps = 0
    /\ num_objects = Unused
    /\ prior = Unused
    /\ frame = Unused
    /\ bytes = Unused
    /\ frameRead = Unused
    /\ IsectUnused
    /\ IterUnused
    /\ StatsUnused
    /\ PixelUnused
    /\ QuantUnused
    /\ build = Unused
    /\ swapped = Unused
    /\ trace = <<>>

\* configurations that write no frames, on a file system that creates all
\* setup directories or none
InitExec ==
    ExecNew([setups : ExecSetups, views : ExecViews, frame_size : {FrameSize},
             write_frames : {FALSE}],
            {f \in FileSystems : f.setup_dir \in {{}, Testers}},
            {EmptyScene, SingleQuad})

\* run up to the loop over the setups: initialize creates the output
\* directory; if it cannot, run returns the error ("failed")
RunInitialize ==
    /\ pc.at = "start"
    /\ pc' = IF fs.out_dir THEN [at |-> "setup", setup |-> 1, view |-> 0]
             ELSE [at |-> "failed", setup |-> 0, view |-> 0]
    /\ lastOp' = "initialize"
    /\ UNCHANGED <<config, fs, events, panicked, numOps, rasterVars, aggVars,
                   frameVars, isectVars, engineVars, iterVars, statsVars,
                   pixelVars, quantVars, lateVars>>

\* test_setup up to the loop over the views
TestSetup ==
    /\ pc.at = "setup"
    /\ pc.setup <= Len(config.setups)
    /\ IF TesterOf(config.setups[pc.setup]) \in fs.setup_dir
       THEN /\ engine' = TesterOf(config.setups[pc.setup])
            /\ options' = [frame_size |-> config.frame_size]
            /\ events' = events \o <<<<"build_acceleration_structures", pc.setup>>,
                                     <<"new", pc.setup>>>>
            /\ rasterizer' = IF engine' = "raycaster" THEN Unused
                             ELSE RasterizerNew(config.frame_size, config.frame_size)
            /\ id_buffer' = IF engine' = "raycaster"
                            THEN [i \in 1..(config.frame_size * config.frame_size) |-> None]
                            ELSE Unused
            /\ visibility' = <<>>
            /\ pc' = IF Len(config.views) = 0 THEN NextSetup
                     ELSE [at |-> "view", setup |-> pc.setup, view |-> 0]
       ELSE /\ pc' = NextSetup
            /\ UNCHANGED <<engine, options, events, rasterizer, id_buffer, visibility>>
    /\ lastOp' = "test_setup"
    /\ UNCHANGED <<config, fs, scene, view, stats, panicked, numOps, num_objects,
                   prior, frameVars, isectVars, iterVars, statsVars,
                   pixelVars, quantVars, lateVars>>

\* what the tester's compute_visibility does to the engine instance
TesterComputeVisibility(v) ==
    IF engine = "raycaster"
    THEN NaiveRaycasterComputeVisibility(
             id_buffer, visibility, options.frame_size, scene,
             build_acceleration_structures(scene),
             v.view_matrix, v.projection_matrix)
    ELSE RasterizerCullerComputeVisibility(
             rasterizer, visibility, options.frame_size, scene,
             v.view_matrix, v.projection_matrix)

\* the frame file of the view: File::create, then write_id_buffer_as_ppm
\* if the file was created
FrameFileOps(setup, k) ==
    IF ~config.write_frames THEN <<>>
    ELSE IF fs.bad_file = Some([view |-> k, at |-> "create"])
    THEN <<[op |-> "create", setup |-> setup, view |-> k, ok |-> FALSE]>>
    ELSE <<[op |-> "create", setup |-> setup, view |-> k, ok |-> TRUE],
           [op |-> "write", setup |-> setup, view |-> k,
            ok |-> fs.bad_file # Some([view |-> k, at |-> "write"])]>>

\* one iteration of the loop over the views
RenderView ==
    /\ pc.at = "view"
    /\ view' = config.views[pc.view + 1]
    /\ events' = Append(events, <<"compute_visibility", pc.setup, pc.view>>)
    /\ \E out \in {TesterComputeVisibility(config.views[pc.view + 1])} :
          /\ rasterizer' = IF engine = "raycaster" THEN rasterizer ELSE out.rasterizer
          /\ id_buffer' = IF engine = "raycaster" THEN out.id_buffer ELSE id_buffer
          /\ visibility' = out.visibility
          /\ stats' = out.stats
          /\ panicked' = out.panic
          /\ pc' = IF out.panic THEN [pc EXCEPT !.at = "panicked"] ELSE NextView
          /\ trace' = IF out.panic THEN trace
                       ELSE trace \o FrameFileOps(pc.setup, pc.view)
    /\ lastOp' = "compute_visibility"
    /\ UNCHANGED <<config, fs, engine, scene, options, numOps, num_objects, prior,
                   frameVars, isectVars, iterVars, statsVars,
                   pixelVars, quantVars, build, swapped>>

\* the loop over the setups is finished: run returns Ok(())
RunReturn ==
    /\ pc.at = "setup"
    /\ pc.setup > Len(config.setups)
    /\ pc' = [at |-> "done", setup |-> 0, view |-> 0]
    /\ lastOp' = "run"
    /\ UNCHANGED <<config, fs, events, panicked, numOps, rasterVars, aggVars,
                   frameVars, isectVars, engineVars, iterVars, statsVars,
                   pixelVars, quantVars, lateVars>>

NextExec == RunInitialize \/ TestSetup \/ RenderView \/ RunReturn

SpecExec == InitExec /\ [][NextExec]_vars

\* the calls of one setup: build, new, then one compute_visibility per view
RECURSIVE ViewEvents(_, _)
ViewEvents(i, k) ==
    IF k >= Len(config.views) THEN <<>>
    ELSE <<<<"compute_visibility", i, k>>>> \o ViewEvents(i, k + 1)

RECURSIVE SetupEvents(_)
SetupEvents(i) ==
    IF i > Len(config.setups) THEN <<>>
    ELSE <<<<"build_acceleration_structures", i>>, <<"new", i>>>>
         \o ViewEvents(i, 0) \o SetupEvents(i + 1)

\* run has ended, by returning or by a panic
RunEnded == pc.at \in {"done", "failed", "panicked"}

\* C13: when the directories can be created, the calls run makes are, for
\* every setup in list order, one build of the indexed scene, one
\* construction of the engine and one compute_visibility per view in
\* view-index order: at every moment a prefix of that sequence, and all of
\* it once run has ended.
C13_OncePerSetupAndView ==
    (fs.out_dir /\ fs.setup_dir = Testers) =>
        /\ Len(events) <= Len(SetupEvents(1))
        /\ events = SubSeq(SetupEvents(1), 1, Len(events))
        /\ RunEnded => events = SetupEvents(1)

(***************************************************************************)
(* Stats (stats.rs).  The heap of Arc<Mutex<Stats>> cells is the sequence  *)
(* nodes; a StatsNode handle is the index of its cell, so that two clones  *)
(* of one Arc are the same index.  locks holds the owner of every Mutex.   *)
(* A child name is a number standing for a string.                         *)
(***************************************************************************)
\* HashMap::new()
EmptyMap == [name \in {} |-> 0]

\* Stats::new(depth)
StatsNew(depth) == [depth |-> depth, timings_ns |-> 0, children |-> EmptyMap]

\* mutant: the child is inserted even if the name is present
GetChildAlwaysInsert(heap, node, name) ==
    [nodes |-> Append([heap EXCEPT ![node].children =
                          [x \in DOMAIN heap[node].children \cup {name} |->
                              IF x = name THEN Len(heap) + 1
                              ELSE heap[node].children[x]]],
                      StatsNew(heap[node].depth + 1)),
     handle |-> Len(heap) + 1]

\* Stats::get_child on the node `node` of the heap: the heap afterwards and
\* the handle returned.  The Arc that or_insert's argument allocates for a
\* name that is present is dropped again and never enters the heap.
GetChild(heap, node, name) ==
    IF name \in DOMAIN heap[node].children
    THEN [nodes |-> heap, handle |-> heap[node].children[name]]
    ELSE [nodes |-> Append([heap EXCEPT ![node].children =
                               [x \in DOMAIN heap[node].children \cup {name} |->
                                   IF x = name THEN Len(heap) + 1
                                   ELSE heap[node].children[x]]],
                           StatsNew(heap[node].depth + 1)),
          handle |-> Len(heap) + 1]

\* mutant: lock() does not wait for the Mutex
MutexAlwaysFree(l, node) == TRUE

\* Mutex::lock can return: no thread holds the Mutex of the node
MutexFree(l, node) == l[node] = 0

(***************************************************************************)
(* Specification of a stats tree shared by threads that look up children,  *)
(* register timings and release them.                                      *)
(***************************************************************************)
Threads == 1..NumThreads
Names == 1..NumNames
Idle == [pc |-> "idle"]

\* number of operations begun so far
StatsOpsLeft == numOps < MaxStatsOps

InitStats ==
    /\ nodes = <<StatsNew(1)>>
    /\ locks = <<0>>
    /\ threads = [t \in Threads |-> Idle]
    /\ recordings = <<>>
    /\ lookups = {}
    /\ lastOp = "new"
    /\ panicked = FALSE
    /\ numOps = 0
    /\ rasterizer = Unused
    /\ id_buffer = Unused
    /\ num_objects = Unused
    /\ visibility = Unused
    /\ prior = Unused
    /\ frame = Unused
    /\ bytes = Unused
    /\ frameRead = Unused
    /\ IsectUnused
    /\ EngineUnused
    /\ IterUnused
    /\ ExecUnused
    /\ PixelUnused
    /\ QuantUnused
    /\ LateUnused

StatsOthersUnchanged ==
    UNCHANGED <<panicked, rasterVars, aggVars, frameVars, isectVars, engineVars,
                iterVars, execVars, pixelVars, quantVars, lateVars>>

\* StatsNodeTrait::get_child: self.lock()
GetChildLock(t) ==
    /\ threads[t].pc = "idle"
    /\ StatsOpsLeft
    /\ \E node \in 1..Len(nodes), name \in Names :
          /\ MutexFree(locks, node)
          /\ locks' = [locks EXCEPT ![node] = t]
          /\ threads' = [threads EXCEPT ![t] =
                            [pc |-> "get_child", node |-> node, name |-> name]]
    /\ numOps' = numOps + 1
    /\ lastOp' = "lock"
    /\ UNCHANGED <<nodes, recordings, lookups, fragment, before,
          f32_depth, quantized>>
    /\ StatsOthersUnchanged

\* StatsNodeTrait::get_child: Stats::get_child under the lock, the guard is
\* dropped at the end of the statement and the handle is returned
GetChildReturn(t) ==
    /\ threads[t].pc = "get_child"
    /\ \E out \in {GetChild(nodes, threads[t].node, threads[t].name)} :
          /\ nodes' = out.nodes
          /\ locks' = [i \in 1..Len(out.nodes) |->
                          IF i = threads[t].node \/ i > Len(locks) THEN 0 ELSE locks[i]]
          /\ lookups' = lookups \cup {<<threads[t].node, threads[t].name, out.handle>>}
    /\ threads' = [threads EXCEPT ![t] = Idle]
    /\ lastOp' = "get_child"
    /\ UNCHANGED <<numOps, recordings>>
    /\ StatsOthersUnchanged

\* StatsNodeTrait::register_timing: TimeRecording::new(self.clone())
RegisterTiming(t) ==
    /\ threads[t].pc = "idle"
    /\ StatsOpsLeft
    /\ \E node \in 1..Len(nodes) :
          recordings' = Append(recordings, [dst_node |-> node, state |-> "live", ns |-> 0,
                                           by |-> 0])
    /\ numOps' = numOps + 1
    /\ lastOp' = "register_timing"
    /\ UNCHANGED <<nodes, locks, threads, lookups>>
    /\ StatsOthersUnchanged

\* drop of a TimeRecording: let ns = self.t0.elapsed().as_nanos()
DropElapsed(t) ==
    /\ threads[t].pc = "idle"
    /\ \E r \in 1..Len(recordings), ns \in 1..MaxElapsed :
          /\ recordings[r].state = "live"
          /\ recordings' = [recordings EXCEPT ![r].state = "dropping", ![r].ns = ns,
                                             ![r].by = t]
          /\ threads' = [threads EXCEPT ![t] = [pc |-> "drop", rec |-> r, ns |-> ns]]
    /\ lastOp' = "elapsed"
    /\ UNCHANGED <<nodes, locks, lookups, numOps>>
    /\ StatsOthersUnchanged

\* drop: self.dst_node.lock()
DropLock(t) ==
    /\ threads[t].pc = "drop"
    /\ MutexFree(locks, recordings[threads[t].rec].dst_node)
    /\ locks' = [locks EXCEPT ![recordings[threads[t].rec].dst_node] = t]
    /\ threads' = [threads EXCEPT ![t].pc = "drop_locked"]
    /\ lastOp' = "lock"
    /\ UNCHANGED <<nodes, recordings, lookups, numOps>>
    /\ StatsOthersUnchanged

\* drop: the read of timings_ns in timings_ns += ns
DropLoad(t) ==
    /\ threads[t].pc = "drop_locked"
    /\ threads' = [threads EXCEPT ![t] =
                      [pc |-> "drop_loaded", rec |-> threads[t].rec, ns |-> threads[t].ns,
                       loaded |-> nodes[recordings[threads[t].rec].dst_node].timings_ns]]
    /\ lastOp' = "load"
    /\ UNCHANGED <<nodes, locks, recordings, lookups, numOps>>
    /\ StatsOthersUnchanged

\* drop: the write of timings_ns, after which the guard is dropped
DropStore(t) ==
    /\ threads[t].pc = "drop_loaded"
    /\ nodes' = [nodes EXCEPT ![recordings[threads[t].rec].dst_node].timings_ns =
                                  threads[t].loaded + threads[t].ns]
    /\ locks' = [locks EXCEPT ![recordings[threads[t].rec].dst_node] = 0]
    /\ recordings' = [recordings EXCEPT ![threads[t].rec].state = "dropped"]
    /\ threads' = [threads EXCEPT ![t] = Idle]
    /\ lastOp' = "drop"
    /\ UNCHANGED <<lookups, numOps>>
    /\ StatsOthersUnchanged

NextStats ==
    \E t \in Threads :
        \/ GetChildLock(t)
        \/ GetChildReturn(t)
        \/ RegisterTiming(t)
        \/ DropElapsed(t)
        \/ DropLock(t)
        \/ DropLoad(t)
        \/ DropStore(t)

SpecStats == InitStats /\ [][NextStats]_vars

\* the names get_child has been called with on a node
NamesRequested(node) == {l[2] : l \in {m \in lookups : m[1] = node}}

\* C14: at every moment a node has exactly one child per distinct name that
\* get_child has returned for, every get_child call with the same name on
\* the same node has returned the handle the node still holds for that name
\* (so all callers share one node), and get_child never changes the counter
\* or the children of a node that already exists, except for adding the new
\* child to its parent.
C14_GetChildCreatesOnce ==
    /\ [](\A node \in 1..Len(nodes) :
             DOMAIN nodes[node].children = NamesRequested(node))
    /\ [](\A l \in lookups : nodes[l[1]].children[l[2]] = l[3])
    /\ [][lastOp' = "get_child" =>
            \A i \in 1..Len(nodes) :
                /\ nodes'[i].timings_ns = nodes[i].timings_ns
                /\ \A name \in DOMAIN nodes[i].children :
                      /\ name \in DOMAIN nodes'[i].children
                      /\ nodes'[i].children[name] = nodes[i].children[name]]_vars

\* a name was looked up twice on the root after one lookup had created the
\* child and a timing had been accumulated on it: one child, counter kept
C14_Witness ==
    /\ lastOp = "get_child"
    /\ numOps >= 3
    /\ lookups = {<<1, 1, 2>>}
    /\ Len(nodes) = 2
    /\ nodes[2].timings_ns > 0

\* the sum of the elapsed times of the recordings released on a node
RECURSIVE ReleasedOn(_, _)
ReleasedOn(node, r) ==
    IF r > Len(recordings) THEN 0
    ELSE (IF recordings[r].dst_node = node /\ recordings[r].state = "dropped"
          THEN recordings[r].ns ELSE 0) + ReleasedOn(node, r + 1)

\* C15: in every interleaving, the counter of every node is the sum of the
\* elapsed times of the recordings registered on that node whose release has
\* completed; a release changes no other node.
C15_NoLostUpdate ==
    \A node \in 1..Len(nodes) : nodes[node].timings_ns = ReleasedOn(node, 1)

\* two recordings on the same node have been released by different threads
C15_Witness ==
    /\ \E r1, r2 \in 1..Len(recordings) :
          /\ recordings[r1].by # recordings[r2].by
          /\ recordings[r1].dst_node = recordings[r2].dst_node
          /\ recordings[r1].state = "dropped"
          /\ recordings[r2].state = "dropped"
          /\ nodes[recordings[r1].dst_node].timings_ns =
                recordings[r1].ns + recordings[r2].ns
    /\ lastOp = "drop"

(***************************************************************************)
(* Specification of one rasterizer driven by rasterize calls only.         *)
(***************************************************************************)
NextDraw == Rasterize

SpecDraw == InitRaster /\ [][NextDraw]_vars

\* C17: a rasterize call leaves every depth cell as it was or overwrites it
\* by a strictly smaller value, so the values a cell holds over any sequence
\* of rasterize calls are strictly decreasing.
C17_DepthOnlyDecreases ==
    [][lastOp' = "rasterize" =>
          /\ Len(rasterizer'.depth_buffer) = Len(rasterizer.depth_buffer)
          /\ \A i \in 1..Len(rasterizer.depth_buffer) :
                \/ rasterizer'.depth_buffer[i] = rasterizer.depth_buffer[i]
                \/ rasterizer'.depth_buffer[i] < rasterizer.depth_buffer[i]]_vars

\* the last rasterize call has overwritten a cell that an earlier call had
\* written, and has left another written cell alone
C17_Witness ==
    /\ lastOp = "rasterize"
    /\ numOps = 2
    /\ \E i \in 1..Len(rasterizer.depth_buffer) :
          /\ before.depth_buffer[i] < DMax
          /\ rasterizer.depth_buffer[i] < before.depth_buffer[i]
    /\ \E i \in 1..Len(rasterizer.depth_buffer) :
          /\ before.depth_buffer[i] < DMax
          /\ rasterizer.depth_buffer[i] = before.depth_buffer[i]

\* C18: in every state reached from a fresh rasterizer by rasterize calls, a
\* pixel's id is non-empty exactly if its depth cell is below D::MAX, and a
\* pixel whose id is empty holds D::MAX.
C18_IdIffDepth ==
    /\ Len(rasterizer.depth_buffer) = Len(rasterizer.id_buffer)
    /\ \A i \in 1..Len(rasterizer.id_buffer) :
          /\ rasterizer.id_buffer[i] # None <=> rasterizer.depth_buffer[i] < DMax
          /\ rasterizer.id_buffer[i] = None => rasterizer.depth_buffer[i] = DMax

\* after two rasterize calls some trace hold an id and some are empty
C18_Witness ==
    /\ lastOp = "rasterize"
    /\ numOps = 2
    /\ \E i \in 1..Len(rasterizer.id_buffer) :
          rasterizer.id_buffer[i] # None /\ rasterizer.depth_buffer[i] < DMax
    /\ \E i \in 1..Len(rasterizer.id_buffer) :
          rasterizer.id_buffer[i] = None /\ rasterizer.depth_buffer[i] = DMax

(***************************************************************************)
(* Specification of one rasterizer driven by draw_pixel calls, the pixel   *)
(* inside the frame as draw_scanline guarantees.                           *)
(***************************************************************************)
\* two trace of the frame
PixelCoords == {<<0, 0>>, <<FrameSize - 1, 1>>}

\* depths inside [0, 1] (two of them with the same quantized value, and the
\* two ends of the range), outside of it, and the non-finite ones
FragmentDepths ==
    {QI(0), Q(1, 4), Q(from_f32(Q(1, 4)), DMax), Q(3, 4), QI(1),
     Q(-1, 2), Q(3, 2), NaN, PInf, NInf}

DrawPixel ==
    /\ numOps < MaxDraws
    /\ ~panicked
    /\ \E id \in 0..(NumIds - 1), c \in PixelCoords, d \in FragmentDepths :
          /\ fragment' = [id |-> id, x |-> c[1], y |-> c[2], depth |-> d]
          /\ \E r \in {draw_pixel(Enter(rasterizer), id, c[1], c[2], d)} :
                /\ rasterizer' = Leave(r)
                /\ panicked' = r.panic
    /\ before' = rasterizer
    /\ lastOp' = "draw_pixel"
    /\ numOps' = numOps + 1
    /\ UNCHANGED <<aggVars, frameVars, isectVars, engineVars, iterVars, execVars,
                   statsVars, quantVars, lateVars>>

NextPixel == DrawPixel

SpecPixel == InitRaster /\ [][NextPixel]_vars

\* the depth cell of the pixel of the last fragment, before the call
FragmentCell == before.depth_buffer[fragment.y * before.width + fragment.x + 1]

\* the last fragment is not a number in [0, 1]
FragmentOutside ==
    \/ fragment.depth \in {NaN, PInf, NInf}
    \/ QLt(fragment.depth, QI(0))
    \/ QLt(QI(1), fragment.depth)

\* the quantized depth of the last fragment equals the stored one
FragmentTies ==
    /\ ~FragmentOutside
    /\ QLe(QI(FragmentCell), QMul(fragment.depth, QI(DMax)))
    /\ QLt(QMul(fragment.depth, QI(DMax)), QI(FragmentCell + 1))

\* C19: a draw_pixel call whose fragment quantizes to the depth stored in
\* its pixel, or whose depth is not a finite number in [0, 1], changes
\* neither the depth buffer nor the id buffer.
C19_TiesAndInvalidDepthsLeaveBuffers ==
    (lastOp = "draw_pixel" /\ (FragmentTies \/ FragmentOutside))
    => (~panicked /\ rasterizer = before)

\* a fragment of another id ties with the depth its pixel already holds and
\* the pixel keeps the id of the first writer
C19_Witness ==
    /\ lastOp = "draw_pixel"
    /\ FragmentTies
    /\ FragmentCell < DMax
    /\ before.id_buffer[fragment.y * before.width + fragment.x + 1] # Some(fragment.id)
    /\ rasterizer = before

(***************************************************************************)
(* DepthBufferPrecisionType::from_f32 of both depth types.  The 32-bit     *)
(* result is a u32, the pair <<high 16 bits, low 16 bits>>.  F_MAX of the  *)
(* 32-bit type is u32::MAX as f32, which is 2^32, and the cast saturates   *)
(* at u32::MAX; the product depth * 2^32 is computed by long division in  *)
(* base 2^16.                                                              *)
(***************************************************************************)
\* the two digits of the truncated product, the first one 2^16 for depth 1
U32Digits(high, rest, den) ==
    IF high >= Half THEN U32Max ELSE <<high, (rest * Half) \div den>>

\* (depth * F_MAX) as u32
from_f32_u32(depth) ==
    U32Digits((depth[1] * Half) \div depth[2], (depth[1] * Half) % depth[2], depth[2])

\* the depths n / d in [0, 1] with d up to MaxDenominator
UnitDepths ==
    {Q(p[1], p[2]) : p \in {c \in (0..MaxDenominator) \X (1..MaxDenominator) : c[1] <= c[2]}}

InitQuant ==
    /\ f32_depth \in UnitDepths
    /\ quantized = [u16 |-> None, u32 |-> None]
    /\ lastOp = "new"
    /\ panicked = FALSE
    /\ numOps = 0
    /\ rasterizer = Unused
    /\ id_buffer = Unused
    /\ num_objects = Unused
    /\ visibility = Unused
    /\ prior = Unused
    /\ frame = Unused
    /\ bytes = Unused
    /\ frameRead = Unused
    /\ IsectUnused
    /\ EngineUnused
    /\ IterUnused
    /\ ExecUnused
    /\ StatsUnused
    /\ PixelUnused
    /\ LateUnused

QuantOthersUnchanged ==
    UNCHANGED <<f32_depth, panicked, numOps, rasterVars, aggVars, frameVars,
                isectVars, engineVars, iterVars, execVars, statsVars, pixelVars,
                lateVars>>

\* <u16 as DepthBufferPrecisionType>::from_f32
FromF32U16 ==
    /\ quantized.u16 = None
    /\ quantized' = [quantized EXCEPT !.u16 = Some(from_f32(f32_depth))]
    /\ lastOp' = "from_f32"
    /\ QuantOthersUnchanged

\* <u32 as DepthBufferPrecisionType>::from_f32
FromF32U32 ==
    /\ quantized.u32 = None
    /\ quantized' = [quantized EXCEPT !.u32 = Some(from_f32_u32(f32_depth))]
    /\ lastOp' = "from_f32"
    /\ QuantOthersUnchanged

NextQuant == FromF32U16 \/ FromF32U32

SpecQuant == InitQuant /\ [][NextQuant]_vars

\* q is the integer part of x, for x >= 0
IntegerPartOf(q, x) == QLe(QI(q), x) /\ QLt(x, QI(q + 1))

\* C20 as stated, for the 16-bit depth type: the quantized depth is
\* depth * D::MAX rounded to the nearest integer and is at most D::MAX.
C20_Original ==
    quantized.u16 # None =>
        /\ quantized.u16[1] = QRound(QMul(f32_depth, QI(DMax)))
        /\ quantized.u16[1] <= DMax

\* C20: for a depth in [0, 1] the 16-bit quantized depth is the integer part
\* of depth * 65535 and the 32-bit one the integer part of depth * 2^32,
\* saturated at 2^32 - 1 (truncation, not rounding); neither exceeds D::MAX.
C20_Truncates ==
    /\ quantized.u16 # None =>
          /\ IntegerPartOf(quantized.u16[1], QMul(f32_depth, QI(DMax)))
          /\ quantized.u16[1] \in 0..DMax
    /\ quantized.u32 # None =>
          /\ quantized.u32[1] \in (0..(Half - 1)) \X (0..(Half - 1))
          /\ IF f32_depth = QI(1) THEN quantized.u32[1] = U32Max
             ELSE /\ IntegerPartOf(quantized.u32[1][1], QMul(f32_depth, QI(Half)))
                  /\ IntegerPartOf(quantized.u32[1][2],
                                   QMul(QSub(QMul(f32_depth, QI(Half)),
                                             QI(quantized.u32[1][1])), QI(Half)))

\* depth 0.5: 32767.5 is truncated to 32767 in 16 bits, and is 2^31 in 32 bits
C20_Witness ==
    /\ f32_depth = Q(1, 2)
    /\ quantized = [u16 |-> Some(32767), u32 |-> Some(<<32768, 0>>)]

(***************************************************************************)
(* Specification of rasterize applied to triangles whose three vertices    *)
(* round to one row of the frame (the line case of fill_triangle).         *)
(***************************************************************************)
\* vertices that round to row 1: three columns, three heights, two depths
LineVerts ==
    { <<QI(x), y, z>> : x \in 0..(FrameSize - 1),
                        y \in {Q(3, 4), QI(1), Q(5, 4)},
                        z \in {Q(1, 4), Q(1, 2)} }

RasterizeLine ==
    /\ lastOp = "new"
    /\ \E id \in 0..(NumIds - 1), p0 \in LineVerts, p1 \in LineVerts,
          p2 \in LineVerts :
          /\ tri' = <<p0, p1, p2>>
          /\ \E r \in {rasterize(Enter(rasterizer), id, p0, p1, p2)} :
                /\ rasterizer' = Leave(r)
                /\ panicked' = r.panic
          /\ fragment' = [id |-> id]
    /\ before' = rasterizer
    /\ lastOp' = "rasterize"
    /\ numOps' = numOps + 1
    /\ UNCHANGED <<aggVars, frameVars, aabb, ray, f1, f2, engineVars, iterVars,
                   execVars, statsVars, quantVars, lateVars>>

NextLine == RasterizeLine

SpecLine == InitRaster /\ [][NextLine]_vars

\* the vertices of the last triangle with the smallest and the largest x
LeftMost == CHOOSE p \in {tri[1], tri[2], tri[3]} :
                \A q \in {tri[1], tri[2], tri[3]} : QLe(VX(p), VX(q))
RightMost == CHOOSE p \in {tri[1], tri[2], tri[3]} :
                \A q \in {tri[1], tri[2], tri[3]} : QLe(VX(q), VX(p))

\* the three vertices have different x, so the extreme vertices are unique
DistinctColumns ==
    Cardinality({VX(tri[1]), VX(tri[2]), VX(tri[3])}) = 3

\* C21: when the three vertices of a triangle round to the same row y of the
\* frame, rasterize draws exactly the scanline of row y from the smallest to
\* the largest x of the three vertices, with the depths of these two
\* vertices at its ends, in whatever order the vertices are passed.
C21_LineSpansAllVertices ==
    (lastOp = "rasterize" /\ DistinctColumns) =>
        /\ ~panicked
        /\ rasterizer =
              Leave(draw_scanline(Enter(before), fragment.id,
                                  QRound(VY(tri[1])),
                                  VX(LeftMost), VX(RightMost),
                                  VZ(LeftMost), VZ(RightMost)))

(***************************************************************************)
(* Specification of rasterize applied, on a fresh rasterizer, to triangles *)
(* with a horizontal bottom or top edge that lie inside the frame.         *)
(***************************************************************************)
\* x coordinates in steps of 1/FlatSteps over the columns 0 .. FrameSize - 1
FlatColumns == {Q(k, FlatSteps) : k \in 0..((FrameSize - 1) * FlatSteps)}

\* depths of the apex; the vertices of the flat edge have depth 1/2
ApexDepths == {Q(1, 4), Q(3, 4)}

\* bottom-flat: apex p0 on the smaller y, p1 and p2 on one height
BottomFlatTriangles ==
    { <<<<xa, ya, za>>, <<x1, QI(2), Q(1, 2)>>, <<x2, QI(2), Q(1, 2)>>>> :
        xa \in FlatColumns, x1 \in FlatColumns, x2 \in FlatColumns,
        ya \in {QI(0), Q(2, 3)}, za \in ApexDepths }

\* top-flat: p0 and p1 on one height, apex p2 on the larger y
TopFlatTriangles ==
    { <<<<x0, QI(0), Q(1, 2)>>, <<x1, QI(0), Q(1, 2)>>, <<xa, ya, za>>>> :
        xa \in FlatColumns, x0 \in FlatColumns, x1 \in FlatColumns,
        ya \in {QI(2), Q(4, 3)}, za \in ApexDepths }

RasterizeFlat ==
    /\ lastOp = "new"
    /\ \E id \in {NumIds - 1}, t \in BottomFlatTriangles \cup TopFlatTriangles :
          /\ tri' = t
          /\ \E r \in {rasterize(Enter(rasterizer), id, t[1], t[2], t[3])} :
                /\ rasterizer' = Leave(r)
                /\ panicked' = r.panic
          /\ fragment' = [id |-> id]
    /\ before' = rasterizer
    /\ lastOp' = "rasterize"
    /\ numOps' = numOps + 1
    /\ UNCHANGED <<aggVars, frameVars, aabb, ray, f1, f2, engineVars, iterVars,
                   execVars, statsVars, quantVars, lateVars>>

NextFlat == RasterizeFlat

SpecFlat == InitRaster /\ [][NextFlat]_vars

\* the columns of row y that hold the id of the last triangle
Run(y) ==
    {x \in 0..(rasterizer.width - 1) :
        rasterizer.id_buffer[y * rasterizer.width + x + 1] = Some(fragment.id)}

\* the rows from the lowest to the highest vertex of the last triangle
FlatRows == QRound(VY(tri[1]))..QRound(VY(tri[3]))

IsBottomFlat == VY(tri[2]) = VY(tri[3])

\* every row of the triangle holds one non-empty contiguous run of its id
RunsAreContiguous ==
    \A y \in FlatRows :
        /\ Run(y) # {}
        /\ \A a \in Run(y), b \in Run(y) : \A x \in a..b : x \in Run(y)

\* C22 as stated: the runs of a bottom-flat triangle never get shorter as y
\* increases, those of a top-flat triangle never get longer.
C22_Original ==
    lastOp = "rasterize" =>
        /\ ~panicked
        /\ RunsAreContiguous
        /\ \A y \in FlatRows : (y + 1) \in FlatRows =>
              IF IsBottomFlat
              THEN Cardinality(Run(y)) <= Cardinality(Run(y + 1))
              ELSE Cardinality(Run(y)) >= Cardinality(Run(y + 1))

\* C22: a bottom-flat (top-flat) triangle inside the frame with depths in
\* [0, 1), rasterized into an empty rasterizer, leaves on every row from
\* round(y0) to round(y1) one non-empty contiguous run of its id; a run is
\* at most one pixel shorter (longer) than any run on a lower row, the ends
\* of a run being rounded independently.
C22_RunsGrowUpToRounding ==
    lastOp = "rasterize" =>
        /\ ~panicked
        /\ RunsAreContiguous
        /\ \A y \in FlatRows, z \in FlatRows : y < z =>
              IF IsBottomFlat
              THEN Cardinality(Run(y)) <= Cardinality(Run(z)) + 1
              ELSE Cardinality(Run(y)) + 1 >= Cardinality(Run(z))

\* a bottom-flat triangle whose run on one row is shorter than the run on
\* the row below it
C22_Witness ==
    /\ lastOp = "rasterize"
    /\ IsBottomFlat
    /\ \E y \in FlatRows :
          /\ (y + 1) \in FlatRows
          /\ Cardinality(Run(y)) = Cardinality(Run(y + 1)) + 1

(***************************************************************************)
(* Specification of read_binary on byte streams that end anywhere: a       *)
(* header of three words followed by id and depth words, cut to a length.  *)
(***************************************************************************)
\* the words a header is made of
HeaderWords == {U32(0), U32(1), U32(2), U32Max}

\* the words that follow the header in every stream: ids, among them the
\* code of the empty cell, then depths
BodyWords == <<U32(0), U32Max, U32(1), U32(Half + 2), <<16000, 0>>, <<16256, 0>>>>

\* the streams: every header, followed by the first words of the body, cut
\* after any number of bytes
Streams ==
    { SubSeq(to_le_bytes(w) \o to_le_bytes(h) \o to_le_bytes(d)
                \o WriteDepths(BodyWords), 1, k) :
        w \in HeaderWords, h \in HeaderWords, d \in HeaderWords,
        k \in 0..(12 + 4 * MaxStreamWords) }

InitStream ==
    /\ bytes \in Streams
    /\ frame = Unused
    /\ frameRead = Unused
    /\ lastOp = "new"
    /\ numOps = 0
    /\ panicked = FALSE
    /\ rasterizer = Unused
    /\ id_buffer = Unused
    /\ num_objects = 0
    /\ visibility = Unused
    /\ prior = Unused
    /\ IsectUnused
    /\ EngineUnused
    /\ AuxUnused

ReadStream ==
    /\ lastOp = "new"
    /\ \E out \in {read_binary(bytes)} :
          /\ frameRead' = out
          /\ panicked' = out.panic
    /\ lastOp' = "read_binary"
    /\ numOps' = numOps + 1
    /\ UNCHANGED <<frame, bytes, rasterVars, aggVars, isectVars, engineVars>>
    /\ UNCHANGED auxVars

NextStream == ReadStream

SpecStream == InitStream /\ [][NextStream]_vars

\* the width and the height a stream declares are both at most MaxFrameDim
DeclaresSmall(b) ==
    /\ Word(b, 0)[1] = 0 /\ Word(b, 0)[2] <= MaxFrameDim
    /\ Word(b, 1)[1] = 0 /\ Word(b, 1)[2] <= MaxFrameDim

\* the stream ends before its header, the ids it declares or, with
\* has_depth = 1, the depths it declares; a stream that declares a width and
\* a height of which none is 0 and one is above MaxFrameDim declares more
\* cells than any stream of the model holds
EndsEarly(b) ==
    \/ Len(b) < 12
    \/ /\ Len(b) >= 12
       /\ Word(b, 0) # U32(0)
       /\ Word(b, 1) # U32(0)
       /\ \/ ~DeclaresSmall(b)
          \/ Len(b) < 12 + 4 * Word(b, 0)[2] * Word(b, 1)[2]
          \/ /\ Word(b, 2) = U32(1)
             /\ Len(b) < 12 + 8 * Word(b, 0)[2] * Word(b, 1)[2]

\* C23: read_binary on a stream that ends before the 12-byte header, the
\* declared width*height ids or (when has_depth = 1) the declared
\* width*height depths have been read returns a deserialization error and
\* no Frame.
C23_TruncatedIsDeserializationError ==
    (lastOp = "read_binary" /\ EndsEarly(bytes)) =>
        /\ ~frameRead.panic
        /\ ~frameRead.ok
        /\ frameRead.kind = "DeserializationError"

(***************************************************************************)
(* Specification of the progress reporting of                              *)
(* SceneWithVolumes::build_acceleration_structures: one step per object of *)
(* the scene and the final report.  The bounding volumes themselves are    *)
(* the operator build_acceleration_structures above and do not influence   *)
(* the reports.                                                            *)
(***************************************************************************)
\* mutant: every object reports progress
ProgressEveryObject(i, num_objects_, last_update) == TRUE

\* p0 != last_update, p0 the integer percentage (i * 100 / num_objects) as i32
ProgressDue(i, num_objects_, last_update) ==
    (i * 100) \div num_objects_ # last_update

InitBuild ==
    /\ \E n \in 0..MaxBuilt :
          build = [n |-> n, i |-> 0, last_update |-> -1, calls |-> <<>>,
                   done |-> FALSE]
    /\ trace = Unused
    /\ swapped = Unused
    /\ lastOp = "new"
    /\ panicked = FALSE
    /\ numOps = 0
    /\ rasterizer = Unused
    /\ id_buffer = Unused
    /\ num_objects = Unused
    /\ visibility = Unused
    /\ prior = Unused
    /\ frame = Unused
    /\ bytes = Unused
    /\ frameRead = Unused
    /\ IsectUnused
    /\ EngineUnused
    /\ IterUnused
    /\ ExecUnused
    /\ StatsUnused
    /\ PixelUnused
    /\ QuantUnused

BuildOthersUnchanged ==
    UNCHANGED <<trace, swapped, panicked, numOps, rasterVars, aggVars, frameVars,
                isectVars, engineVars, iterVars, execVars, statsVars, pixelVars,
                quantVars>>

\* the closure of the map over scene.objects, for object i
BuildObject ==
    /\ ~build.done
    /\ build.i < build.n
    /\ build' =
          IF ProgressDue(build.i, build.n, build.last_update)
          THEN [build EXCEPT
                  !.last_update = (build.i * 100) \div build.n,
                  !.calls = Append(@, Q(build.i * 100, build.n)),
                  !.i = @ + 1]
          ELSE [build EXCEPT !.i = @ + 1]
    /\ lastOp' = "object"
    /\ BuildOthersUnchanged

\* progress(0, 1, 100f32, "Computing bounding volumes...DONE")
BuildFinish ==
    /\ ~build.done
    /\ build.i = build.n
    /\ build' = [build EXCEPT !.calls = Append(@, QI(100)), !.done = TRUE]
    /\ lastOp' = "done"
    /\ BuildOthersUnchanged

NextBuild == BuildObject \/ BuildFinish

SpecBuild == InitBuild /\ [][NextBuild]_vars

\* the integer percentage of the objects done when object i is reached
Percent(i) == (i * 100) \div build.n

\* C24: the progress callback is invoked for an object only when the integer
\* percentage floor(i*100/n) has increased, and exactly once more at
\* completion: the reported percentages never decrease, the last one is
\* 100, there are at most 101 calls for any n, and for n = 0 there is
\* exactly one call.
C24_ProgressReports ==
    /\ [](/\ \A k \in 1..(Len(build.calls) - 1) :
                QLe(build.calls[k], build.calls[k + 1])
          /\ Len(build.calls) <= 101
          /\ ~panicked
          /\ build.done =>
                /\ build.calls[Len(build.calls)] = QI(100)
                /\ build.n = 0 => Len(build.calls) = 1)
    /\ [][/\ lastOp' = "object" =>
                (Len(build'.calls) = Len(build.calls) + 1
                 <=> (build.i = 0 \/ Percent(build.i) > Percent(build.i - 1)))
          /\ lastOp' = "object" => Len(build'.calls) <= Len(build.calls) + 1
          /\ lastOp' = "done" => Len(build'.calls) = Len(build.calls) + 1]_vars

\* a scene of more than 100 objects has been built with 101 reports, the
\* callback having been skipped for some objects
C24_Witness ==
    /\ build.done
    /\ build.n > 100
    /\ Len(build.calls) = 101

(***************************************************************************)
(* The counters of the naive raycaster (checked on the engine              *)
(* specification).                                                         *)
(***************************************************************************)
\* number of triangles of the mesh of the object with the given id
TrianglesOfObject(object_id) ==
    Len(scene.meshes[scene.objects[object_id + 1].mesh_index + 1].indices)

RECURSIVE SumOverObjects(_, _)
SumOverObjects(ids, k) ==
    IF k > Len(ids) THEN 0
    ELSE TrianglesOfObject(ids[k]) + SumOverObjects(ids, k + 1)

\* the triangles of the objects whose volume test passed, over the cells
\* from the k-th on
RECURSIVE SumOverPairs(_)
SumOverPairs(k) ==
    IF k > Len(trace) THEN 0
    ELSE SumOverObjects(trace[k], 1) + SumOverPairs(k + 1)

\* the last call was a raycaster call with an invertible proj * view that
\* has returned
RaycastReturned ==
    /\ engine = "raycaster"
    /\ lastOp = "compute_visibility"
    /\ ~SingularView
    /\ ~panicked

KeepLocked(l, node) == l

\* drop of a MutexGuard
Unlock(l, node) == [l EXCEPT ![node] = 0]

\* the handles of the children of a node
ChildrenOf(node) == {nodes[node].children[name] : name \in DOMAIN nodes[node].children}

LiveOpsLeft == numOps < MaxLiveOps

\* a call of StatsNodeTrait::get_child begins: the thread is about to lock
GetChildCall(t) ==
    /\ threads[t].pc = "idle"
    /\ LiveOpsLeft
    /\ \E node \in 1..Len(nodes), name \in Names :
          threads' = [threads EXCEPT ![t] =
                         [pc |-> "get_child_call", node |-> node, name |-> name]]
    /\ numOps' = numOps + 1
    /\ lastOp' = "call"
    /\ UNCHANGED <<nodes, locks, recordings, lookups>>
    /\ StatsOthersUnchanged

\* StatsNodeTrait::get_child: self.lock() returns
GetChildAcquire(t) ==
    /\ threads[t].pc = "get_child_call"
    /\ MutexFree(locks, threads[t].node)
    /\ locks' = [locks EXCEPT ![threads[t].node] = t]
    /\ threads' = [threads EXCEPT ![t].pc = "get_child"]
    /\ lastOp' = "lock"
    /\ UNCHANGED <<nodes, recordings, lookups, numOps>>
    /\ StatsOthersUnchanged

\* a caller is about to print a node: node.lock() is called
DisplayCall(t) ==
    /\ threads[t].pc = "idle"
    /\ LiveOpsLeft
    /\ \E node \in 1..Len(nodes) :
          threads' = [threads EXCEPT ![t] = [pc |-> "display_call", node |-> node]]
    /\ numOps' = numOps + 1
    /\ lastOp' = "call"
    /\ UNCHANGED <<nodes, locks, recordings, lookups>>
    /\ StatsOthersUnchanged

\* the caller's node.lock() returns and Display::fmt starts on the node
DisplayAcquire(t) ==
    /\ threads[t].pc = "display_call"
    /\ MutexFree(locks, threads[t].node)
    /\ locks' = [locks EXCEPT ![threads[t].node] = t]
    /\ threads' = [threads EXCEPT ![t] =
                      [pc |-> "display",
                       stack |-> <<[node |-> threads[t].node,
                                    todo |-> ChildrenOf(threads[t].node)]>>]]
    /\ lastOp' = "lock"
    /\ UNCHANGED <<nodes, recordings, lookups, numOps>>
    /\ StatsOthersUnchanged

\* Display::fmt: child.lock() returns for the next child of the iteration
\* over self.children, and fmt starts on the child
DisplayChildLock(t) ==
    /\ threads[t].pc = "display"
    /\ \E child \in threads[t].stack[Len(threads[t].stack)].todo :
          /\ MutexFree(locks, child)
          /\ locks' = [locks EXCEPT ![child] = t]
          /\ threads' = [threads EXCEPT ![t].stack =
                Append([@ EXCEPT ![Len(@)].todo = @ \ {child}],
                       [node |-> child, todo |-> ChildrenOf(child)])]
    /\ lastOp' = "lock"
    /\ UNCHANGED <<nodes, recordings, lookups, numOps>>
    /\ StatsOthersUnchanged

\* Display::fmt returns for a node all of whose children are formatted, and
\* the guard of the node is dropped
DisplayReturn(t) ==
    /\ threads[t].pc = "display"
    /\ threads[t].stack[Len(threads[t].stack)].todo = {}
    /\ locks' = Unlock(locks, threads[t].stack[Len(threads[t].stack)].node)
    /\ threads' = [threads EXCEPT ![t] =
                      IF Len(threads[t].stack) = 1 THEN Idle
                      ELSE [pc |-> "display",
                            stack |-> SubSeq(threads[t].stack, 1,
                                             Len(threads[t].stack) - 1)]]
    /\ lastOp' = "display"
    /\ UNCHANGED <<nodes, recordings, lookups, numOps>>
    /\ StatsOthersUnchanged

\* the steps in which a thread takes a lock, and its other steps inside an
\* operation
LockStep(t) ==
    GetChildAcquire(t) \/ DropLock(t) \/ DisplayAcquire(t) \/ DisplayChildLock(t)

InnerStep(t) ==
    GetChildReturn(t) \/ DropLoad(t) \/ DropStore(t) \/ DisplayReturn(t)

NextStatsLive ==
    \E t \in Threads :
        \/ GetChildCall(t)
        \/ GetChildAcquire(t)
        \/ GetChildReturn(t)
        \/ LiveOpsLeft /\ RegisterTiming(t)
        \/ DropElapsed(t)
        \/ DropLock(t)
        \/ DropLoad(t)
        \/ DropStore(t)
        \/ DisplayCall(t)
        \/ DisplayAcquire(t)
        \/ DisplayChildLock(t)
        \/ DisplayReturn(t)

\* fair scheduling: a thread inside an operation eventually takes its next
\* step, and a thread in lock() gets the Mutex if it is free again and again
SpecStatsFair ==
    /\ InitStats
    /\ [][NextStatsLive]_vars
    /\ \A t \in Threads : WF_vars(InnerStep(t)) /\ SF_vars(LockStep(t))

\* the nodes whose Mutex a thread holds
HeldBy(t) == {node \in 1..Len(nodes) : locks[node] = t}

\* the nodes on the stack of a thread in Display
StackNodes(t) == {threads[t].stack[k].node : k \in 1..Len(threads[t].stack)}

\* get_child and the release of a timing hold at most their own node; a
\* thread in Display holds exactly the nodes of its stack, each one a child
\* of the one below it; a thread outside of an operation holds nothing
LocksFollowTheTree ==
    \A t \in Threads :
        CASE threads[t].pc = "get_child" -> HeldBy(t) = {threads[t].node}
          [] threads[t].pc \in {"drop_locked", "drop_loaded"} ->
                HeldBy(t) = {recordings[threads[t].rec].dst_node}
          [] threads[t].pc = "display" ->
                /\ HeldBy(t) = StackNodes(t)
                /\ \A k \in 2..Len(threads[t].stack) :
                      threads[t].stack[k].node
                          \in ChildrenOf(threads[t].stack[k - 1].node)
          [] OTHER -> HeldBy(t) = {}

\* every child is one level below its parent and has a larger handle
IsTree ==
    \A node \in 1..Len(nodes) : \A child \in ChildrenOf(node) :
        /\ nodes[child].depth = nodes[node].depth + 1
        /\ child > node

\* C26: the stats tree never deadlocks.  get_child and the release of a
\* timing handle hold at most one node lock at a time, Display takes locks
\* only parent before child, every child has depth = parent depth + 1 (the
\* structure is a tree), and under fair scheduling every thread that has
\* begun an operation, and with it every lock() it calls, finishes.
C26_NoDeadlock ==
    /\ [](LocksFollowTheTree /\ IsTree)
    /\ \A t \in Threads : threads[t].pc # "idle" ~> threads[t].pc = "idle"

\* a thread formats the root and holds the locks of the root and of a
\* child while the other thread waits in lock() for one of the two
C26_Witness ==
    \E t \in Threads, u \in Threads :
        /\ threads[t].pc = "display"
        /\ Len(threads[t].stack) = 2
        /\ \/ /\ threads[u].pc = "get_child_call"
              /\ threads[u].node \in HeldBy(t)
           \/ /\ threads[u].pc = "drop"
              /\ recordings[threads[u].rec].dst_node \in HeldBy(t)

(***************************************************************************)
(* Specification of one rasterize call on a fresh rasterizer of any small  *)
(* size, with triangles inside, across and outside of the frame.           *)
(***************************************************************************)
\* widths and heights of the rasterizers
BoundSizes == {0, 1, FrameSize}

\* window coordinates left of / above, inside and right of / below the frame
BoundCoords == {Q(-1, 1), Q(1, 2), Q(4, 1)}

BoundVerts == {<<x, y, Q(1, 2)>> : x \in BoundCoords, y \in BoundCoords}

InitBounds ==
    /\ rasterizer \in {RasterizerNew(w, h) : w \in BoundSizes, h \in BoundSizes}
    /\ panicked = FALSE
    /\ lastOp = "new"
    /\ numOps = 0
    /\ id_buffer = Unused
    /\ num_objects = 0
    /\ visibility = Unused
    /\ prior = Unused
    /\ frame = Unused
    /\ bytes = Unused
    /\ frameRead = Unused
    /\ IsectUnused
    /\ EngineUnused
    /\ AuxUnused

\* Rasterizer::rasterize on the fresh rasterizer; trace records whether a
\* cell of a pixel outside the frame was addressed
RasterizeAnywhere ==
    /\ lastOp = "new"
    /\ \E p0 \in BoundVerts, p1 \in BoundVerts, p2 \in BoundVerts :
          /\ tri' = <<p0, p1, p2>>
          /\ \E r \in {rasterize(Enter(rasterizer), 0, p0, p1, p2)} :
                /\ rasterizer' = Leave(r)
                /\ panicked' = r.panic
                /\ trace' = [outside |-> r.outside]
    /\ before' = rasterizer
    /\ lastOp' = "rasterize"
    /\ numOps' = numOps + 1
    /\ UNCHANGED <<aggVars, frameVars, aabb, ray, f1, f2, engineVars, iterVars,
                   execVars, statsVars, fragment, quantVars, build, swapped>>

NextBounds == RasterizeAnywhere

SpecBounds == InitBounds /\ [][NextBounds]_vars

\* C27: rasterization never touches a cell outside the frame: on a fresh
\* rasterizer every pixel write of rasterize has x < width and y < height,
\* so that no buffer index is out of range.
C27_WritesStayInFrame ==
    lastOp = "rasterize" => ~trace.outside /\ ~panicked

\* the same for frames of at least one pixel
C27_NonEmptyFrame ==
    (lastOp = "rasterize" /\ before.width > 0 /\ before.height > 0)
        => ~trace.outside /\ ~panicked

\* a triangle across the frame border wrote into a frame of several pixels
C27_Drawn ==
    /\ lastOp = "rasterize"
    /\ before.width > 1
    /\ \E k \in 1..3 : QLt(VX(tri[k]), QI(0))
    /\ \E i \in 1..Len(rasterizer.id_buffer) : rasterizer.id_buffer[i] # None

(***************************************************************************)
(* Specification of TestExecutor::run with two setups on any of the file   *)
(* systems, with and without frames of one pixel.                          *)
(***************************************************************************)
FailSetups == {su \in ExecSetups : Len(su) = MaxSetups}

InitExecFail ==
    ExecNew([setups : FailSetups, views : ExecViews, frame_size : {1},
             write_frames : BOOLEAN],
            FileSystems, {SingleQuad})

SpecExecFail == InitExecFail /\ [][NextExec]_vars

\* the calls run makes when the setup directories in fs.setup_dir can be
\* created and the others cannot: a setup whose test_setup fails makes none
RECURSIVE SurvivingEvents(_)
SurvivingEvents(i) ==
    IF i > Len(config.setups) THEN <<>>
    ELSE (IF TesterOf(config.setups[i]) \in fs.setup_dir
          THEN <<<<"build_acceleration_structures", i>>, <<"new", i>>>>
               \o ViewEvents(i, 0)
          ELSE <<>>)
         \o SurvivingEvents(i + 1)

\* a setup directory or a frame file is refused
SomethingFails ==
    \/ \E i \in 1..Len(config.setups) : TesterOf(config.setups[i]) \notin fs.setup_dir
    \/ fs.bad_file # None
   
\* run ends as the claim says: with the error and without a call on an
\* engine if the output directory cannot be created, and else with Ok after
\* all the calls of the setups whose directory can be created
EndsAsClaimed ==
    /\ ~fs.out_dir => pc.at \in {"start", "failed"} /\ events = <<>>
    /\ fs.out_dir =>
          /\ Len(events) <= Len(SurvivingEvents(1))
          /\ events = SubSeq(SurvivingEvents(1), 1, Len(events))
          /\ RunEnded => pc.at = "done" /\ events = SurvivingEvents(1)

\* C28: run keeps going after a failure of test_setup for one engine (the
\* remaining engines are run, run returns Ok) and after a failure to create
\* or write the frame file of a view (the remaining views are computed);
\* only a failure to create the output directory makes run return an
\* error, and then no engine is run.
C28_RunKeepsGoing == (SomethingFails \/ ~fs.out_dir) => EndsAsClaimed

\* the same as long as no engine has panicked
C28_UnlessPanicked ==
    ((SomethingFails \/ ~fs.out_dir) /\ pc.at # "panicked") => EndsAsClaimed

\* run has returned Ok although the directory of the first of two setups and
\* the frame file of the first of two views were refused, and the second
\* view's file was written
C28_Survived ==
    /\ pc.at = "done"
    /\ Len(config.setups) = 2
    /\ TesterOf(config.setups[1]) \notin fs.setup_dir
    /\ TesterOf(config.setups[2]) \in fs.setup_dir
    /\ Len(config.views) = 2
    /\ config.write_frames
    /\ fs.bad_file # None
    /\ fs.bad_file[1].view = 0
    /\ \E k \in 1..Len(trace) :
          trace[k] = [op |-> "write", setup |-> 2, view |-> 1, ok |-> TRUE]
    /\ SomethingFails

(***************************************************************************)
(* Specification of three triangles rasterized into a fresh rasterizer in  *)
(* list order and, into a second fresh rasterizer, in a permuted order.    *)
(***************************************************************************)
\* outlines in window coordinates: one half of the frame, the other half
\* (they share the diagonal), and the middle row
OrderShapes ==
    { <<<<0, 0>>, <<2, 0>>, <<0, 2>>>>,
      <<<<2, 2>>, <<0, 2>>, <<2, 0>>>>,
      <<<<0, 1>>, <<2, 1>>, <<1, 1>>>> }

\* depths of the three vertices: constant near, constant far, on the far
\* plane, and sloped
OrderDepths ==
    { <<Q(1, 4), Q(1, 4), Q(1, 4)>>,
      <<Q(3, 4), Q(3, 4), Q(3, 4)>>,
      <<Q(1, 1), Q(1, 1), Q(1, 1)>>,
      <<Q(1, 4), Q(3, 4), Q(1, 2)>> }

OrderTriangles ==
    { [k \in 1..3 |-> <<QI(sh[k][1]), QI(sh[k][2]), d[k]>>] :
        sh \in OrderShapes, d \in OrderDepths }

\* the object ids of the first, second and third triangle
OrderIds == <<0, 1, 0>>

\* the orders in which three triangles can be submitted
Orders ==
    { <<1, 2, 3>>, <<1, 3, 2>>, <<2, 1, 3>>, <<2, 3, 1>>, <<3, 1, 2>>, <<3, 2, 1>> }

\* rasterize called for the triangles list[order[k]], k = n, n + 1, ...
RECURSIVE RasterizeInOrder(_, _, _, _)
RasterizeInOrder(r, list, order, n) ==
    IF n > Len(order) THEN r
    ELSE RasterizeInOrder(
            rasterize(r, OrderIds[order[n]], list[order[n]][1],
                      list[order[n]][2], list[order[n]][3]),
            list, order, n + 1)

\* the same triangles submitted to two fresh rasterizers in two orders
RasterizeBothWays ==
    /\ lastOp = "new"
    /\ \E list \in [1..3 -> OrderTriangles], order \in Orders :
          /\ tri' = list
          /\ \E r \in {RasterizeInOrder(Enter(rasterizer), list, <<1, 2, 3>>, 1)},
                sw \in {RasterizeInOrder(Enter(rasterizer), list, order, 1)} :
                /\ rasterizer' = Leave(r)
                /\ swapped' = Leave(sw)
                /\ panicked' = (r.panic \/ sw.panic)
                /\ trace' = [landed |-> r.landed, order |-> order]
    /\ before' = rasterizer
    /\ lastOp' = "rasterize"
    /\ numOps' = numOps + 1
    /\ UNCHANGED <<aggVars, frameVars, aabb, ray, f1, f2, engineVars, iterVars,
                   execVars, statsVars, fragment, quantVars, build>>

NextOrder == RasterizeBothWays

SpecOrder == InitRaster /\ [][NextOrder]_vars

\* the fragments that landed on the cell with the given index
LandedOn(index) ==
    {trace.landed[k] : k \in {j \in 1..Len(trace.landed) : trace.landed[j][1] = index}}

\* no two fragments on one pixel have the same quantized depth
NoTies ==
    \A j \in 1..Len(trace.landed), k \in 1..Len(trace.landed) :
        (j # k /\ trace.landed[j][1] = trace.landed[k][1])
            => trace.landed[j][3] # trace.landed[k][3]

\* the nearest of a non-empty set of fragments
Nearest(frs) == CHOOSE a \in frs : \A b \in frs : a[3] <= b[3]

\* the cell holds the nearest of the fragments in frs
HoldsNearest(r, index, frs) ==
    /\ r.depth_buffer[index + 1] = Nearest(frs)[3]
    /\ r.id_buffer[index + 1] = Some(Nearest(frs)[2])

SameBuffers ==
    /\ rasterizer.depth_buffer = swapped.depth_buffer
    /\ rasterizer.id_buffer = swapped.id_buffer

\* the claim as stated: every pixel a fragment landed on holds the nearest
\* fragment
C29_Original ==
    (lastOp = "rasterize" /\ NoTies) =>
        /\ SameBuffers
        /\ \A index \in 0..(Len(rasterizer.id_buffer) - 1) :
              LandedOn(index) # {} => HoldsNearest(rasterizer, index, LandedOn(index))

\* C29: the final buffers do not depend on the submission order when no two
\* fragments on one pixel have equal quantized depth:
\* both orders give the same depth and id buffer, and every pixel holds the
\* depth and the id of the nearest of the fragments on it whose quantized
\* depth is below D::MAX, or D::MAX and no id if there is none.
C29_OrderIndependent ==
    (lastOp = "rasterize" /\ NoTies) =>
        /\ SameBuffers
        /\ \A index \in 0..(Len(rasterizer.id_buffer) - 1) :
              LET frs == {fr \in LandedOn(index) : fr[3] < DMax}
              IN  IF frs # {} THEN HoldsNearest(rasterizer, index, frs)
                  ELSE /\ rasterizer.depth_buffer[index + 1] = DMax
                       /\ rasterizer.id_buffer[index + 1] = None

\* two objects overlap without a tie, the farther one was submitted first in
\* one order and last in the other
C29_Witness ==
    /\ lastOp = "rasterize"
    /\ NoTies
    /\ trace.order = <<3, 2, 1>>
    /\ \E index \in 0..(Len(rasterizer.id_buffer) - 1) :
          \E a \in LandedOn(index), b \in LandedOn(index) :
              /\ a[2] = 0 /\ b[2] = 1 /\ b[3] < a[3]
              /\ tri[1] # tri[3]
              /\ rasterizer.id_buffer[index + 1] = Some(1)

(***************************************************************************)
(* Specification of the object loop of raycast_data for one pixel, as a    *)
(* function of the scene and of the pixel's ray on the integer grid.       *)
(***************************************************************************)
\* a sheet in the plane z = 1 and a wedge with a slanted face, whose AABB is
\* the cube from (0, 0, 0) to (2, 2, 2)
Sheet ==
    [vertices |-> <<QVec(0, 0, 1), QVec(MaxCoord, 0, 1),
                    QVec(MaxCoord, MaxCoord, 1), QVec(0, MaxCoord, 1)>>,
     indices |-> <<<<0, 1, 2>>, <<0, 2, 3>>>>]

Wedge ==
    [vertices |-> <<QVec(0, 0, 0), QVec(MaxCoord, 0, 0), QVec(0, MaxCoord, 0),
                    QVec(0, 0, MaxCoord)>>,
     indices |-> <<<<1, 2, 3>>, <<0, 1, 2>>>>]

SheetThenWedge ==
    [meshes |-> <<Sheet, Wedge>>,
     objects |-> <<[mesh_index |-> 0, transform |-> TranslateZ(QI(0))],
                   [mesh_index |-> 1, transform |-> TranslateZ(QI(0))]>>]

WedgeThenSheet ==
    [meshes |-> <<Sheet, Wedge>>,
     objects |-> <<[mesh_index |-> 1, transform |-> TranslateZ(QI(0))],
                   [mesh_index |-> 0, transform |-> TranslateZ(QI(0))]>>]

\* two sheets in one plane, and two wedges one behind the other
ScreenScenes ==
    {SheetThenWedge, WedgeThenSheet, TwoQuads,
     [meshes |-> <<Sheet>>,
      objects |-> <<[mesh_index |-> 0, transform |-> TranslateZ(QI(0))],
                    [mesh_index |-> 0, transform |-> TranslateZ(QI(0))]>>],
     [meshes |-> <<Wedge>>,
      objects |-> <<[mesh_index |-> 0, transform |-> TranslateZ(QI(1))],
                    [mesh_index |-> 0, transform |-> TranslateZ(QI(0))]>>]}

\* the state of the loops of a pixel before the first object
FreshCell ==
    [depth |-> F32_MAX, id |-> None, num_triangles |-> 0,
     num_volume_tests |-> 0, passed |-> <<>>]

InitScreen ==
    /\ scene \in ScreenScenes
    /\ \E x0 \in RayOrigins, dx \in RaySteps : ray = from_pos(x0, VAdd(x0, dx))
    /\ engine = "raycaster"
    /\ options = Unused
    /\ view = Unused
    /\ stats = Unused
    /\ lastOp = "new"
    /\ numOps = 0
    /\ panicked = FALSE
    /\ rasterizer = Unused
    /\ id_buffer = Unused
    /\ num_objects = 0
    /\ visibility = Unused
    /\ prior = Unused
    /\ frame = Unused
    /\ bytes = Unused
    /\ frameRead = Unused
    /\ aabb = Unused
    /\ tri = Unused
    /\ f1 = Unused
    /\ f2 = Unused
    /\ AuxUnused

\* the loop over the objects for the pixel with the given ray
CastRay ==
    /\ lastOp = "new"
    /\ \E cell \in {CastObjects(FreshCell, ray, scene,
                                build_acceleration_structures(scene), 0)} :
          trace' = cell
    /\ lastOp' = "cast"
    /\ numOps' = numOps + 1
    /\ UNCHANGED <<panicked, rasterVars, aggVars, frameVars, isectVars, engineVars,
                   iterVars, execVars, statsVars, pixelVars, quantVars, build,
                   swapped>>

NextScreen == CastRay

SpecScreen == InitScreen /\ [][NextScreen]_vars

\* the same loop without the volume test: every triangle of every object
RECURSIVE TestEveryTriangle(_, _, _, _)
TestEveryTriangle(cell, r, sc, object_id) ==
    IF object_id >= Len(sc.objects) THEN cell
    ELSE TestEveryTriangle(
            CastTriangles(cell, r, object_id, sc.objects[object_id + 1].transform,
                          sc.meshes[sc.objects[object_id + 1].mesh_index + 1], 1),
            r, sc, object_id + 1)

\* triangle_ray without a cap for the triangle t of the i-th object
HitOfTriangle(r, sc, i, t) ==
    triangle_ray(
        transform(sc.objects[i].transform,
                  sc.meshes[sc.objects[i].mesh_index + 1].vertices[t[1] + 1]),
        transform(sc.objects[i].transform,
                  sc.meshes[sc.objects[i].mesh_index + 1].vertices[t[2] + 1]),
        transform(sc.objects[i].transform,
                  sc.meshes[sc.objects[i].mesh_index + 1].vertices[t[3] + 1]),
        r, None)

\* the hits of the ray: object id and hit parameter, for every triangle hit
HitsOf(r, sc) ==
    UNION { { <<i - 1, HitOfTriangle(r, sc, i,
                          sc.meshes[sc.objects[i].mesh_index + 1].indices[k])>> :
                k \in 1..Len(sc.meshes[sc.objects[i].mesh_index + 1].indices) } :
            i \in 1..Len(sc.objects) }
    \ {<<i - 1, None>> : i \in 1..Len(sc.objects)}

\* the first object in scene order with a hit of minimum parameter
FirstNearest(hits) ==
    IF hits = {} THEN None
    ELSE Some(CHOOSE id \in {h[1] : h \in hits} :
                /\ \E h \in hits : h[1] = id /\ \A g \in hits : QLe(h[2][1], g[2][1])
                /\ \A h \in hits :
                      (\A g \in hits : QLe(h[2][1], g[2][1])) => id <= h[1])

\* C30: the AABB pre-screen never changes the image: the id a pixel gets
\* from the loop that skips an object when aabb_ray misses within the
\* current nearest depth is the id it gets from the same loop testing every
\* triangle of every object, which is the first object in scene order owning
\* a triangle with the minimum hit parameter along the ray, or empty when no
\* triangle is hit.
C30_ScreenKeepsImage ==
    lastOp = "cast" =>
        /\ trace.id = TestEveryTriangle(FreshCell, ray, scene, 0).id
        /\ trace.id = FirstNearest(HitsOf(ray, scene))

\* the first object was hit and the second one was skipped by the volume
\* test, although the ray meets its box: the box lies behind the hit
C30_Witness ==
    /\ lastOp = "cast"
    /\ trace.passed = <<0>>
    /\ trace.id = Some(0)
    /\ aabb_ray(build_acceleration_structures(scene)[2], ray, None) # None
====
